---- MODULE Spec2Model ----
(***************************************************************************)
(* CryptoTrack price cache, upstream client and valuation.                 *)
(*                                                                         *)
(* Spec       : the CoinGeckoService singleton (time-bounded memo cache    *)
(*              and the nine upstream operations) driven by overlapping    *)
(*              requests, clearCache, getCacheStats and the clock.         *)
(* SpecOps    : the nine operations, one call at a time.                   *)
(* SpecKeys   : calls whose arguments differ in order, sorting or case.    *)
(* SpecValuation : the valuation of one holding by each valuation path.    *)
(* SpecPortfolio : the GET /api/portfolio handler on top of the service.   *)
(*                                                                         *)
(* JavaScript numbers that come out of a division are exact fractions, or  *)
(* NaN / Infinity / -Infinity when the divisor is 0 (rounding of floating  *)
(* point is not modelled).                                                 *)
(*                                                                         *)
(* JavaScript values are tagged records: null, a plain object (a mapping), *)
(* an array, and an Error.  A string built by a template literal is the    *)
(* sequence of its pieces, so that two keys are equal exactly when the     *)
(* strings are.                                                            *)
(***************************************************************************)
EXTENDS Integers, Sequences, FiniteSets, TLC

VARIABLES
  cache,          \* this.cache : Map key -> {data, timestamp}
  now,            \* Date.now()
  req,            \* the in-flight / finished calls of the service, per request slot
  upstreamCalls,  \* number of this.api.get calls issued so far
  lastSet,        \* history: per key, the most recent setCachedData since the last clear
  last,           \* history: the step that produced this state, the cache before it,
                  \* and what the step returned to its caller
  db,             \* the Holding collection of the authenticated user
  rt,             \* the GET /api/portfolio request being handled
  val             \* SpecValuation: a holding document and its last valuation

svars == <<cache, now, req, upstreamCalls, lastSet, last>>
vars == <<cache, now, req, upstreamCalls, lastSet, last, db, rt, val>>

----------------------------------------------------------------------------
(* Bounds *)

MaxTicks == 3       \* the clock advances at most MaxTicks times
MaxCalls == 2       \* upstream calls issued in one behaviour

Requests == {1, 2}  \* concurrent calls of the service; a new call takes the lowest free slot
TickStep == 30000      \* the clock advances in steps of TickStep ms

----------------------------------------------------------------------------
(* JavaScript values *)

null == [t |-> "null"]
Obj(f) == [t |-> "obj", v |-> f]
Arr(s) == [t |-> "arr", items |-> s]
Err(m) == [t |-> "error", message |-> m]

\* if (cached): null is falsy; every object and array (even empty) is truthy.
Truthy(x) == x.t # "null"

Range(s) == {s[i] : i \in DOMAIN s}

\* Array.prototype.join as the sequence of pieces of the resulting string.
RECURSIVE Join(_, _)
Join(s, sep) ==
  IF Len(s) = 0 THEN <<>>
  ELSE IF Len(s) = 1 THEN <<s[1]>>
  ELSE <<s[1], sep>> \o Join(Tail(s), sep)

\* String.prototype.toLowerCase on a string given as its characters.
LowerChar(ch) ==
  CASE ch = "B" -> "b"
    [] ch = "T" -> "t"
    [] OTHER -> ch

toLowerCase(q) == [i \in DOMAIN q |-> LowerChar(q[i])]

\* String.prototype.trim
RECURSIVE TrimLeft(_)
TrimLeft(q) == IF Len(q) > 0 /\ Head(q) = " " THEN TrimLeft(Tail(q)) ELSE q

RECURSIVE TrimRight(_)
TrimRight(q) ==
  IF Len(q) > 0 /\ q[Len(q)] = " " THEN TrimRight(SubSeq(q, 1, Len(q) - 1)) ELSE q

trim(q) == TrimRight(TrimLeft(q))

----------------------------------------------------------------------------
(* The cache (CoinGeckoService constructor and helpers) *)

cacheTimeout == 60000

EmptyCache == [k \in {} |-> null]

\* Mutant: the age test admits an entry that is exactly cacheTimeout old.
getCachedData_le(c, key, t) ==
  IF key \in DOMAIN c /\ t - c[key].timestamp <= cacheTimeout
  THEN c[key].data
  ELSE null

\* getCachedData(key), evaluated on cache c at time t
getCachedData(c, key, t) ==
  IF key \in DOMAIN c /\ t - c[key].timestamp < cacheTimeout
  THEN c[key].data
  ELSE null

\* Mutant: overwriting an entry keeps its old timestamp.
setCachedData_keepsTimestamp(c, key, data, t) ==
  [k \in DOMAIN c \cup {key} |->
     IF k = key
     THEN [data |-> data, timestamp |-> IF key \in DOMAIN c THEN c[key].timestamp ELSE t]
     ELSE c[k]]

\* setCachedData(key, data) at time t: the cache afterwards
setCachedData(c, key, data, t) ==
  [k \in DOMAIN c \cup {key} |->
     IF k = key THEN [data |-> data, timestamp |-> t] ELSE c[k]]

\* Mutant: the map is not emptied.
clearCache_keepsEntries(c) == c

\* clearCache(): the cache afterwards
clearCache(c) == EmptyCache

\* getCacheStats(): the returned object
getCacheStats(c) == [size |-> Cardinality(DOMAIN c), keys |-> DOMAIN c]

----------------------------------------------------------------------------
(* The calls of the upstream client *)

\* One call of a service method with its arguments (unused arguments keep the
\* defaults of the method signatures).
Args ==
  [op |-> "", coinIds |-> <<>>, coinIdsGiven |-> TRUE,
   vs_currency |-> "usd", vs_currencies |-> <<"usd">>, coinId |-> "",
   order |-> "market_cap_desc", per_page |-> 100, page |-> 1,
   sparkline |-> FALSE, price_change_percentage |-> "24h",
   days |-> 7, query |-> <<>>, queryGiven |-> TRUE]

\* Spec: overlapping calls of three methods, and a degenerate call.
Invocations ==
  { [Args EXCEPT !.op = "getSimplePrices", !.coinIds = <<"btc", "eth">>],
    [Args EXCEPT !.op = "getSimplePrices", !.coinIds = <<>>],
    [Args EXCEPT !.op = "getCoin", !.coinId = "btc"],
    [Args EXCEPT !.op = "searchCoins", !.query = <<"b", "t">>] }

\* SpecOps: one call of each of the nine methods, and a degenerate call.
OpInvocations ==
  { [Args EXCEPT !.op = "getCoins"],
    [Args EXCEPT !.op = "getCoinMarkets"],
    [Args EXCEPT !.op = "getCoin", !.coinId = "btc"],
    [Args EXCEPT !.op = "getCoinsByIds", !.coinIds = <<"btc", "eth">>],
    [Args EXCEPT !.op = "getSimplePrices", !.coinIds = <<"btc", "eth">>],
    [Args EXCEPT !.op = "getSimplePrices", !.coinIds = <<>>],
    [Args EXCEPT !.op = "getCoinHistory", !.coinId = "btc"],
    [Args EXCEPT !.op = "searchCoins", !.query = <<"b", "t">>],
    [Args EXCEPT !.op = "getTrendingCoins"],
    [Args EXCEPT !.op = "getGlobalData"] }

\* SpecDegenerate: calls with empty, missing or too short arguments among
\* calls that go through.
DegenerateInvocations ==
  { [Args EXCEPT !.op = "getSimplePrices", !.coinIds = <<>>],
    [Args EXCEPT !.op = "getSimplePrices", !.coinIdsGiven = FALSE],
    [Args EXCEPT !.op = "getCoinsByIds", !.coinIds = <<>>],
    [Args EXCEPT !.op = "getCoinsByIds", !.coinIdsGiven = FALSE],
    [Args EXCEPT !.op = "searchCoins", !.queryGiven = FALSE],
    [Args EXCEPT !.op = "searchCoins", !.query = <<>>],
    [Args EXCEPT !.op = "searchCoins", !.query = <<"b">>],
    [Args EXCEPT !.op = "searchCoins", !.query = <<" ", "b", " ">>],
    [Args EXCEPT !.op = "searchCoins", !.query = <<"b", "t">>],
    [Args EXCEPT !.op = "getSimplePrices", !.coinIds = <<"btc">>],
    [Args EXCEPT !.op = "getCoinsByIds", !.coinIds = <<"btc">>] }

\* SpecKeys: calls that differ only in the order of the coin ids, in the sort
\* order of a market page, or in the case of a search query.
KeyInvocations ==
  { [Args EXCEPT !.op = "getSimplePrices", !.coinIds = <<"btc", "eth">>],
    [Args EXCEPT !.op = "getSimplePrices", !.coinIds = <<"eth", "btc">>],
    [Args EXCEPT !.op = "getSimplePrices", !.coinIds = <<"btc">>],
    [Args EXCEPT !.op = "getCoinMarkets"],
    [Args EXCEPT !.op = "getCoinMarkets", !.order = "volume_desc"],
    [Args EXCEPT !.op = "searchCoins", !.query = <<"b", "t">>],
    [Args EXCEPT !.op = "searchCoins", !.query = <<"B", "T">>] }

\* Mutant: the length of the query is tested without trimming it.
ShortCircuits_untrimmed(a) ==
  CASE a.op \in {"getCoinsByIds", "getSimplePrices"} ->
         ~a.coinIdsGiven \/ Len(a.coinIds) = 0
    [] a.op = "searchCoins" -> ~a.queryGiven \/ Len(a.query) < 2
    [] OTHER -> FALSE

\* The early returns taken before the cache is looked at.
ShortCircuits(a) ==
  CASE a.op \in {"getCoinsByIds", "getSimplePrices"} ->
         ~a.coinIdsGiven \/ Len(a.coinIds) = 0
    [] a.op = "searchCoins" ->
         ~a.queryGiven \/ Len(a.query) = 0 \/ Len(trim(a.query)) < 2
    [] OTHER -> FALSE

ShortCircuitResult(a) ==
  IF a.op = "getSimplePrices" THEN Obj(<<>>) ELSE Arr(<<>>)

\* const cacheKey = ... of each method
CacheKey(a) ==
  CASE a.op = "getCoins" -> <<"coins_list">>
    [] a.op = "getCoinMarkets" ->
         <<"markets_", a.vs_currency, "_", ToString(a.page), "_", ToString(a.per_page)>>
    [] a.op = "getCoin" -> <<"coin_", a.coinId>>
    [] a.op = "getCoinsByIds" ->
         <<"coins_">> \o Join(a.coinIds, ",") \o <<"_", a.vs_currency>>
    [] a.op = "getSimplePrices" ->
         <<"prices_">> \o Join(a.coinIds, ",") \o <<"_">> \o Join(a.vs_currencies, ",")
    [] a.op = "getCoinHistory" ->
         <<"history_", a.coinId, "_", a.vs_currency, "_", ToString(a.days)>>
    [] a.op = "searchCoins" -> <<"search_">> \o toLowerCase(a.query)
    [] a.op = "getTrendingCoins" -> <<"trending_coins">>
    [] a.op = "getGlobalData" -> <<"global_data">>

\* params.ids of the request getSimplePrices sends: coinIds.join(',')
UpstreamIds(a) == a.coinIds

\* The message of the Error each method throws from its catch block.
ErrorMessage(a) ==
  CASE a.op = "getCoins" -> <<"Failed to fetch coins list">>
    [] a.op = "getCoinMarkets" -> <<"Failed to fetch coin market data">>
    [] a.op = "getCoin" -> <<"Failed to fetch data for coin: ", a.coinId>>
    [] a.op = "getCoinsByIds" -> <<"Failed to fetch coins data">>
    [] a.op = "getSimplePrices" -> <<"Failed to fetch simple prices">>
    [] a.op = "getCoinHistory" -> <<"Failed to fetch price history for ", a.coinId>>
    [] a.op = "searchCoins" -> <<"Failed to search coins">>
    [] a.op = "getTrendingCoins" -> <<"Failed to fetch trending coins">>
    [] a.op = "getGlobalData" -> <<"Failed to fetch global market data">>

----------------------------------------------------------------------------
(* The upstream provider: response.data of a successful call.  The market data
   moves between calls: the answer to the n-th call issued carries version n. *)

PriceOf(c, v) == IF c = "btc" THEN 100 * v ELSE 50 * v

Row(c, v) == [id |-> c, n |-> PriceOf(c, v)]

\* rows in the order the request asks for
MarketRows(order, v) ==
  IF order = "market_cap_desc" THEN <<Row("btc", v), Row("eth", v)>>
  ELSE <<Row("eth", v), Row("btc", v)>>

SelectRows(rows, ids) == SelectSeq(rows, LAMBDA x : x.id \in ids)

\* v = 0 stands for a search/trending answer that carries no coins field.
ResponseData(a, v) ==
  CASE a.op = "getSimplePrices" ->
         Obj([c \in Range(a.coinIds) |->
                [cur \in Range(a.vs_currencies) |-> PriceOf(c, v)]])
    [] a.op = "getCoinsByIds" ->
         Arr(SelectRows(MarketRows("market_cap_desc", v), Range(a.coinIds)))
    [] a.op = "getCoinMarkets" -> Arr(MarketRows(a.order, v))
    [] a.op = "getCoins" -> Arr(<<Row("btc", v), Row("eth", v)>>)
    [] a.op \in {"searchCoins", "getTrendingCoins"} ->
         IF v = 0 THEN [t |-> "obj", nocoins |-> TRUE]
         ELSE [t |-> "obj", coins |-> Arr(<<Row("btc", v)>>)]
    [] OTHER -> Arr(<<Row(a.coinId, v)>>)

ResponseChoices(q) ==
  IF q.a.op \in {"searchCoins", "getTrendingCoins"} THEN {q.n, 0} ELSE {q.n}

\* What the method stores and returns for a response.
Result(a, data) ==
  IF a.op \in {"searchCoins", "getTrendingCoins"}
  THEN IF "coins" \in DOMAIN data THEN data.coins ELSE Arr(<<>>)
  ELSE data

----------------------------------------------------------------------------
(* The service driven by overlapping requests *)

NoSet == [k \in {} |-> 0]

pending == [t |-> "pending"]

Idle == [pc |-> "idle", a |-> Args, n |-> 0]

\* the step taken last, with the cache and the count of upstream calls before it
Step(op, r, a, ret) ==
  [op |-> op, r |-> r, a |-> a, ret |-> ret, pre |-> cache, calls |-> upstreamCalls]

InitService ==
  /\ cache = EmptyCache
  /\ now = 0
  /\ req = [r \in Requests |-> Idle]
  /\ upstreamCalls = 0
  /\ lastSet = NoSet
  /\ last = Step("init", 0, Args, null)

\* Mutant: a lookup that finds an expired entry deletes it.
Call_evicting(r, a) ==
  /\ req[r].pc = "idle"
  /\ \A q \in Requests : q < r => req[q].pc = "waiting"
  /\ LET cached == getCachedData(cache, CacheKey(a), now) IN
     IF ShortCircuits(a)
     THEN /\ last' = Step("call", r, a, ShortCircuitResult(a))
          /\ UNCHANGED <<req, upstreamCalls, cache>>
     ELSE IF Truthy(cached)
     THEN /\ last' = Step("call", r, a, cached)
          /\ UNCHANGED <<req, upstreamCalls, cache>>
     ELSE /\ upstreamCalls < MaxCalls
          /\ req' = [req EXCEPT ![r] = [pc |-> "waiting", a |-> a, n |-> upstreamCalls + 1]]
          /\ upstreamCalls' = upstreamCalls + 1
          /\ last' = Step("call", r, a, pending)
          /\ cache' = [k \in DOMAIN cache \ {CacheKey(a)} |-> cache[k]]
  /\ UNCHANGED <<now, lastSet>>

\* A method is called: it runs up to its first await.  An early return or a
\* cache hit ends the call at once with a value; otherwise this.api.get is
\* issued and the call waits for the upstream.
Call(r, a) ==
  /\ req[r].pc = "idle"
  /\ \A q \in Requests : q < r => req[q].pc = "waiting"
  /\ LET cached == getCachedData(cache, CacheKey(a), now) IN
     IF ShortCircuits(a)
     THEN /\ last' = Step("call", r, a, ShortCircuitResult(a))
          /\ UNCHANGED <<req, upstreamCalls>>
     ELSE IF Truthy(cached)
     THEN /\ last' = Step("call", r, a, cached)
          /\ UNCHANGED <<req, upstreamCalls>>
     ELSE /\ upstreamCalls < MaxCalls
          /\ req' = [req EXCEPT ![r] = [pc |-> "waiting", a |-> a, n |-> upstreamCalls + 1]]
          /\ upstreamCalls' = upstreamCalls + 1
          /\ last' = Step("call", r, a, pending)
  /\ UNCHANGED <<cache, now, lastSet>>

\* Mutant: the result is returned without being stored.
RespondOk_noStore(r, v) ==
  /\ req[r].pc = "waiting"
  /\ LET a == req[r].a
         data == Result(a, ResponseData(a, v)) IN
     /\ lastSet' = [k \in DOMAIN lastSet \cup {CacheKey(a)} |->
                      IF k = CacheKey(a) THEN [v |-> data, at |-> now, a |-> a]
                      ELSE lastSet[k]]
     /\ last' = Step("respondOk", r, a, data)
  /\ req' = [req EXCEPT ![r] = Idle]
  /\ UNCHANGED <<cache, now, upstreamCalls>>

\* The upstream answers 2xx: the method stores the result and returns it.
\* Mutant: a store does not overwrite an entry that is still fresh (first
\* write wins).
RespondOk_keepsFresh(r, v) ==
  /\ req[r].pc = "waiting"
  /\ LET a == req[r].a
         data == Result(a, ResponseData(a, v))
         fresh == Truthy(getCachedData(cache, CacheKey(a), now))
     IN /\ cache' = IF fresh THEN cache ELSE setCachedData(cache, CacheKey(a), data, now)
        /\ lastSet' = IF fresh THEN lastSet
                      ELSE [k \in DOMAIN lastSet \cup {CacheKey(a)} |->
                              IF k = CacheKey(a) THEN [v |-> data, at |-> now, a |-> a]
                              ELSE lastSet[k]]
        /\ last' = Step("respondOk", r, a, data)
  /\ req' = [req EXCEPT ![r] = Idle]
  /\ UNCHANGED <<now, upstreamCalls>>

RespondOk(r, v) ==
  /\ req[r].pc = "waiting"
  /\ LET a == req[r].a
         data == Result(a, ResponseData(a, v)) IN
     /\ cache' = setCachedData(cache, CacheKey(a), data, now)
     /\ lastSet' = [k \in DOMAIN lastSet \cup {CacheKey(a)} |->
                      IF k = CacheKey(a) THEN [v |-> data, at |-> now, a |-> a]
                      ELSE lastSet[k]]
     /\ last' = Step("respondOk", r, a, data)
  /\ req' = [req EXCEPT ![r] = Idle]
  /\ UNCHANGED <<now, upstreamCalls>>

\* Mutant: a failed call stores an empty result before it throws.
RespondFail_cachesEmpty(r) ==
  /\ req[r].pc = "waiting"
  /\ cache' = setCachedData(cache, CacheKey(req[r].a), Arr(<<>>), now)
  /\ last' = Step("respondFail", r, req[r].a, Err(ErrorMessage(req[r].a)))
  /\ req' = [req EXCEPT ![r] = Idle]
  /\ UNCHANGED <<now, upstreamCalls, lastSet>>

\* The upstream call fails (transport error, timeout, non-2xx): the interceptor
\* rethrows, the catch block of the method throws its own Error.
RespondFail(r) ==
  /\ req[r].pc = "waiting"
  /\ last' = Step("respondFail", r, req[r].a, Err(ErrorMessage(req[r].a)))
  /\ req' = [req EXCEPT ![r] = Idle]
  /\ UNCHANGED <<cache, now, upstreamCalls, lastSet>>

ClearCache ==
  /\ cache' = clearCache(cache)
  /\ lastSet' = NoSet
  /\ last' = Step("clearCache", 0, Args, null)
  /\ UNCHANGED <<now, req, upstreamCalls>>

\* Mutant: taking the stats purges the expired entries.
GetCacheStats_purging ==
  /\ cache' = [k \in {x \in DOMAIN cache : now - cache[x].timestamp < cacheTimeout} |->
                 cache[k]]
  /\ last' = Step("getCacheStats", 0, Args, getCacheStats(cache))
  /\ UNCHANGED <<now, req, upstreamCalls, lastSet>>

GetCacheStats ==
  /\ last' = Step("getCacheStats", 0, Args, getCacheStats(cache))
  /\ UNCHANGED <<cache, now, req, upstreamCalls, lastSet>>

Tick ==
  /\ now + TickStep <= MaxTicks * TickStep
  /\ now' = now + TickStep
  /\ last' = Step("tick", 0, Args, null)
  /\ UNCHANGED <<cache, req, upstreamCalls, lastSet>>

----------------------------------------------------------------------------
(* JavaScript arithmetic of the valuation *)

Abs(x) == IF x < 0 THEN -x ELSE x

RECURSIVE GCD(_, _)
GCD(x, y) == IF y = 0 THEN x ELSE GCD(y, x % y)

NaN == [k |-> "NaN"]
Infinity == [k |-> "Infinity"]
NegInfinity == [k |-> "-Infinity"]

\* the number n / d, d > 0, in lowest terms
Num(n, d) ==
  LET g == GCD(Abs(n), d) IN [k |-> "num", n |-> n \div g, d |-> d \div g]

Zero == Num(0, 1)

\* x / y on integers
Divide(x, y) ==
  IF y = 0 THEN (IF x = 0 THEN NaN ELSE IF x > 0 THEN Infinity ELSE NegInfinity)
  ELSE IF y > 0 THEN Num(x, y)
  ELSE Num(-x, -y)

\* q * m for an integer m > 0
Times(q, m) == IF q.k = "num" THEN Num(q.n * m, q.d) ELSE q

IsFinite(q) == q.k = "num"

----------------------------------------------------------------------------
(* Holdings and their valuation *)

\* new Holding({...}): the calculated fields take the schema defaults.
Holding(id, coinId, amount, buyPrice, purchaseDate) ==
  [id |-> id, coinId |-> coinId, amount |-> amount, buyPrice |-> buyPrice,
   purchaseDate |-> purchaseDate,
   currentPrice |-> 0, currentValue |-> 0, profitLoss |-> 0,
   profitLossPercentage |-> Zero, lastUpdated |-> 0]

\* virtual totalInvestment
totalInvestment(h) == h.amount * h.buyPrice

\* currentPrices[holding.coinId]?.[currency] || 0
CurrentPrice(currentPrices, coinId, currency) ==
  IF coinId \in DOMAIN currentPrices /\ currency \in DOMAIN currentPrices[coinId]
  THEN currentPrices[coinId][currency]
  ELSE 0

\* The values computed for one holding, as every route computes them.
Valued(h, currentPrice, investment, currentValue, profitLoss, profitLossPercentage) ==
  [investment |-> investment, currentPrice |-> currentPrice,
   currentValue |-> currentValue, profitLoss |-> profitLoss,
   profitLossPercentage |-> profitLossPercentage]

\* GET /api/portfolio: the body of holdings.map
PortfolioValuation(h, currentPrice) ==
  LET investment == h.amount * h.buyPrice
      currentValue == h.amount * currentPrice
      profitLoss == currentValue - investment
      profitLossPercentage ==
        IF investment > 0 THEN Times(Divide(profitLoss, investment), 100) ELSE Zero
  IN Valued(h, currentPrice, investment, currentValue, profitLoss, profitLossPercentage)

\* GET /api/portfolio: the calculated values are written on the document.
UpdateHolding(h, x, t) ==
  [h EXCEPT !.currentPrice = x.currentPrice,
            !.currentValue = x.currentValue,
            !.profitLoss = x.profitLoss,
            !.profitLossPercentage = x.profitLossPercentage,
            !.lastUpdated = t]

\* GET /api/portfolio/analytics: the body of holdings.map
AnalyticsValuation(h, currentPrice) ==
  LET investment == h.amount * h.buyPrice
      currentValue == h.amount * currentPrice
      profitLoss == currentValue - investment
      profitLossPercentage ==
        IF investment > 0 THEN Times(Divide(profitLoss, investment), 100) ELSE Zero
  IN Valued(h, currentPrice, investment, currentValue, profitLoss, profitLossPercentage)

\* GET /api/portfolio/export/csv: the body of holdings.forEach
CsvValuation(h, currentPrice) ==
  LET investment == h.amount * h.buyPrice
      currentValue == h.amount * currentPrice
      profitLoss == currentValue - investment
      profitLossPercentage ==
        IF investment > 0 THEN Times(Divide(profitLoss, investment), 100) ELSE Zero
  IN Valued(h, currentPrice, investment, currentValue, profitLoss, profitLossPercentage)

\* GET /api/portfolio/export/pdf: the body of holdings.map
PdfValuation(h, currentPrice) ==
  LET investment == h.amount * h.buyPrice
      currentValue == h.amount * currentPrice
      profitLoss == currentValue - investment
      profitLossPercentage ==
        IF investment > 0 THEN Times(Divide(profitLoss, investment), 100) ELSE Zero
  IN Valued(h, currentPrice, investment, currentValue, profitLoss, profitLossPercentage)

\* holding.calculateProfitLoss(currentPrice): the document afterwards
calculateProfitLoss(h, currentPrice, t) ==
  IF currentPrice = 0 \/ currentPrice <= 0 THEN h
  ELSE LET currentValue == h.amount * currentPrice IN
       [h EXCEPT !.currentPrice = currentPrice,
                 !.currentValue = currentValue,
                 !.profitLoss = currentValue - totalInvestment(h),
                 !.profitLossPercentage =
                    Times(Divide(currentValue - totalInvestment(h), totalInvestment(h)), 100),
                 !.lastUpdated = t]

\* The values a client reads off a document (toJSON with virtuals).
DocumentValues(h) ==
  Valued(h, h.currentPrice, totalInvestment(h), h.currentValue, h.profitLoss,
         h.profitLossPercentage)

----------------------------------------------------------------------------
(* GET /api/portfolio *)

NoResponse == [status |-> 0]

IdleRoute ==
  [pc |-> "idle", currency |-> "usd", holdings |-> <<>>, currentPrices |-> <<>>,
   fetch |-> "none", logged |-> FALSE, saves |-> <<>>, res |-> NoResponse]

\* Holding.find({ userId }).sort({ purchaseDate: -1 })
RECURSIVE InsertByDate(_, _)
InsertByDate(h, s) ==
  IF Len(s) = 0 THEN <<h>>
  ELSE IF h.purchaseDate > Head(s).purchaseDate THEN <<h>> \o s
  ELSE <<Head(s)>> \o InsertByDate(h, Tail(s))

RECURSIVE SortByPurchaseDateDesc(_)
SortByPurchaseDateDesc(s) ==
  IF Len(s) = 0 THEN <<>>
  ELSE InsertByDate(s[Len(s)], SortByPurchaseDateDesc(SubSeq(s, 1, Len(s) - 1)))

\* [...new Set(holdings.map(h => h.coinId))]: first occurrences, in order
RECURSIVE UniqueCoinIds(_, _)
UniqueCoinIds(hs, seen) ==
  IF Len(hs) = 0 THEN <<>>
  ELSE IF Head(hs).coinId \in seen THEN UniqueCoinIds(Tail(hs), seen)
  ELSE <<Head(hs).coinId>> \o UniqueCoinIds(Tail(hs), seen \cup {Head(hs).coinId})

RECURSIVE SumOf(_, _)
SumOf(xs, field) ==
  IF Len(xs) = 0 THEN 0 ELSE xs[1][field] + SumOf(Tail(xs), field)

\* the response of a portfolio without holdings
EmptyPortfolio ==
  [status |-> 200,
   data |-> [totalHoldings |-> 0, totalInvestment |-> 0, totalCurrentValue |-> 0,
             totalProfitLoss |-> 0, totalProfitLossPercentage |-> Zero,
             holdings |-> <<>>]]

\* the response built from the valued holdings
PortfolioSnapshot(updatedHoldings, currency) ==
  LET xs == [i \in DOMAIN updatedHoldings |-> DocumentValues(updatedHoldings[i])]
      totalInvestment_ == SumOf(xs, "investment")
      totalCurrentValue == SumOf(xs, "currentValue")
      totalProfitLoss == SumOf(xs, "profitLoss")
  IN [status |-> 200,
      data |-> [totalHoldings |-> Len(updatedHoldings),
                totalInvestment |-> totalInvestment_,
                totalCurrentValue |-> totalCurrentValue,
                totalProfitLoss |-> totalProfitLoss,
                totalProfitLossPercentage |->
                  IF totalInvestment_ > 0
                  THEN Times(Divide(totalProfitLoss, totalInvestment_), 100)
                  ELSE Zero,
                holdings |-> updatedHoldings,
                currency |-> currency]]

PortfolioError == [status |-> 500, message |-> "Failed to retrieve portfolio"]

ovars == <<db, rt, val>>

\* From the price fetch to the start of the batch save: every holding is valued
\* at the price found for it (0 when there is none) and its save is started.
AfterPrices(holdings, currency, currentPrices, fetch) ==
  [pc |-> "saving", currency |-> currency,
   holdings |-> [i \in DOMAIN holdings |->
                   UpdateHolding(holdings[i],
                     PortfolioValuation(holdings[i],
                       CurrentPrice(currentPrices, holdings[i].coinId, currency)),
                     now)],
   currentPrices |-> currentPrices, fetch |-> fetch, logged |-> fetch = "failed",
   saves |-> [i \in DOMAIN holdings |-> "pending"], res |-> NoResponse]

\* req.user.preferences.currency || 'usd'
UserCurrency(pref) == IF pref = "" THEN "usd" ELSE pref

UserPreferences == {"", "eur"}

\* The request arrives and the holdings are read.  Without holdings the answer
\* is sent at once; otherwise getSimplePrices is called for the distinct coins.
GetPortfolio(pref) ==
  /\ rt.pc \in {"idle", "done"}
  /\ LET holdings == SortByPurchaseDateDesc(db)
         currency == UserCurrency(pref)
         a == [Args EXCEPT !.op = "getSimplePrices",
                           !.coinIds = UniqueCoinIds(holdings, {}),
                           !.vs_currencies = <<currency>>] IN
     IF Len(holdings) = 0
     THEN /\ rt' = [IdleRoute EXCEPT !.pc = "done", !.res = EmptyPortfolio]
          /\ UNCHANGED svars
     ELSE /\ Call(1, a)
          /\ rt' = IF last'.ret = pending
                   THEN [IdleRoute EXCEPT !.pc = "prices", !.currency = currency,
                                          !.holdings = holdings]
                   ELSE AfterPrices(holdings, currency, last'.ret.v, "hit")
  /\ UNCHANGED <<db, val>>

\* Holding.find rejects: the outer catch answers 500.
FindFails ==
  /\ rt.pc \in {"idle", "done"}
  /\ rt' = [IdleRoute EXCEPT !.pc = "done", !.res = PortfolioError]
  /\ UNCHANGED <<svars, db, val>>

\* getSimplePrices resolves with the fresh prices.
PricesArrive(v) ==
  /\ rt.pc = "prices"
  /\ RespondOk(1, v)
  /\ rt' = AfterPrices(rt.holdings, rt.currency, last'.ret.v, "ok")
  /\ UNCHANGED <<db, val>>

\* getSimplePrices throws: the inner catch logs and currentPrices stays {}.
PricesFail ==
  /\ rt.pc = "prices"
  /\ RespondFail(1)
  /\ rt' = AfterPrices(rt.holdings, rt.currency, <<>>, "failed")
  /\ UNCHANGED <<db, val>>

AllSaved(saves) == \A i \in DOMAIN saves : saves[i] = "ok"
Settled(saves) == \A i \in DOMAIN saves : saves[i] # "pending"

\* h.save() of one holding succeeds: its calculated fields are written.  When it
\* was the last one, Promise.all resolves and the snapshot is sent.
SaveOk(i) ==
  /\ rt.pc = "saving"
  /\ i \in DOMAIN rt.saves
  /\ rt.saves[i] = "pending"
  /\ db' = [j \in DOMAIN db |->
              IF db[j].id = rt.holdings[i].id
              THEN UpdateHolding(db[j], DocumentValues(rt.holdings[i]),
                                 rt.holdings[i].lastUpdated)
              ELSE db[j]]
  /\ LET saves == [rt.saves EXCEPT ![i] = "ok"] IN
     rt' = [rt EXCEPT !.saves = saves,
                      !.pc = IF Settled(saves) THEN "done" ELSE "saving",
                      !.res = IF rt.res = NoResponse /\ AllSaved(saves)
                              THEN PortfolioSnapshot(rt.holdings, rt.currency)
                              ELSE rt.res]
  /\ UNCHANGED <<svars, val>>

\* Mutant: a rejected save undoes the writes of the batch that succeeded.
SaveFail_rollsBack(i) ==
  /\ rt.pc = "saving"
  /\ i \in DOMAIN rt.saves
  /\ rt.saves[i] = "pending"
  /\ db' = [j \in DOMAIN db |->
              IF \E m \in DOMAIN rt.saves : rt.saves[m] = "ok" /\ rt.holdings[m].id = db[j].id
              THEN Holding(db[j].id, db[j].coinId, db[j].amount, db[j].buyPrice,
                           db[j].purchaseDate)
              ELSE db[j]]
  /\ LET saves == [rt.saves EXCEPT ![i] = "failed"] IN
     rt' = [rt EXCEPT !.saves = saves,
                      !.pc = IF Settled(saves) THEN "done" ELSE "saving",
                      !.res = IF rt.res = NoResponse THEN PortfolioError ELSE rt.res]
  /\ UNCHANGED <<svars, val>>

\* h.save() of one holding rejects: Promise.all rejects with the first
\* rejection and the outer catch answers 500; the other saves go on.
SaveFail(i) ==
  /\ rt.pc = "saving"
  /\ i \in DOMAIN rt.saves
  /\ rt.saves[i] = "pending"
  /\ LET saves == [rt.saves EXCEPT ![i] = "failed"] IN
     rt' = [rt EXCEPT !.saves = saves,
                      !.pc = IF Settled(saves) THEN "done" ELSE "saving",
                      !.res = IF rt.res = NoResponse THEN PortfolioError ELSE rt.res]
  /\ UNCHANGED <<svars, db, val>>

PortfolioInputs ==
  { <<>>,
    <<Holding(1, "btc", 2, 100, 1)>>,
    <<Holding(1, "btc", 2, 100, 1), Holding(2, "eth", 1, 50, 2)>>,
    <<Holding(1, "btc", 1, 50, 2), Holding(2, "btc", 2, 100, 1)>>,
    <<Holding(1, "btc", 1, 0, 3), Holding(2, "eth", 1, 50, 2), Holding(3, "sol", 3, 100, 1)>> }

----------------------------------------------------------------------------
(* SpecValuation: one holding valued again and again at changing prices *)

Amounts == {1, 2, 3}
BuyPrices == {0, 50, 100}
Prices == {0, 50, 150}
ValuationPaths == {"portfolio", "analytics", "csv", "pdf"}

NoValuation ==
  [doc |-> Holding(0, "", 1, 0, 0), path |-> "none", price |-> 0,
   out |-> DocumentValues(Holding(0, "", 1, 0, 0))]

InitValuation ==
  /\ InitService
  /\ db = <<>>
  /\ rt = IdleRoute
  /\ \E amount \in Amounts, buyPrice \in BuyPrices :
       val = [doc |-> Holding(1, "btc", amount, buyPrice, 0), path |-> "none",
              price |-> 0, out |-> DocumentValues(Holding(1, "btc", amount, buyPrice, 0))]

\* A route values the holding at the price it looked up.
ValueByRoute(path, price) ==
  /\ LET out == CASE path = "portfolio" -> PortfolioValuation(val.doc, price)
                   [] path = "analytics" -> AnalyticsValuation(val.doc, price)
                   [] path = "csv" -> CsvValuation(val.doc, price)
                   [] path = "pdf" -> PdfValuation(val.doc, price) IN
     val' = [doc |-> IF path = "portfolio" THEN UpdateHolding(val.doc, out, now)
                     ELSE val.doc,
             path |-> path, price |-> price, out |-> out]
  /\ UNCHANGED <<svars, db, rt>>

\* add / get / update holding: holding.calculateProfitLoss(currentPrice)
ValueByMethod(price) ==
  /\ LET doc == calculateProfitLoss(val.doc, price, now) IN
     val' = [doc |-> doc, path |-> "calculateProfitLoss", price |-> price,
             out |-> DocumentValues(doc)]
  /\ UNCHANGED <<svars, db, rt>>

\* What getSimplePrices answered (or {} when it threw): the quote of the coin
\* may be absent, zero or positive.
Quotes ==
  { <<>>, [c \in {"eth"} |-> [cur \in {"usd"} |-> 50]] }
    \cup { [c \in {"btc"} |-> [cur \in {"usd"} |-> p]] : p \in Prices }

NextValuation ==
  \/ \E path \in ValuationPaths, q \in Quotes :
       ValueByRoute(path, CurrentPrice(q, val.doc.coinId, "usd"))
  \/ \E q \in Quotes : ValueByMethod(CurrentPrice(q, val.doc.coinId, "usd"))

SpecValuation == InitValuation /\ [][NextValuation]_vars

----------------------------------------------------------------------------
(* SpecPortfolio: GET /api/portfolio over the stored holdings *)

InitPortfolio ==
  /\ InitService
  /\ db \in PortfolioInputs
  /\ rt = IdleRoute
  /\ val = NoValuation

NextPortfolio ==
  \/ \E pref \in UserPreferences : GetPortfolio(pref)
  \/ FindFails
  \/ \E v \in ResponseChoices(req[1]) : PricesArrive(v)
  \/ PricesFail
  \/ \E i \in DOMAIN db : SaveOk(i)
  \/ \E i \in DOMAIN db : SaveFail(i)
  \/ Tick /\ UNCHANGED ovars

SpecPortfolio == InitPortfolio /\ [][NextPortfolio]_vars

----------------------------------------------------------------------------
(* The write/verify routes and the stored summary *)

MaxDocs == 2

\* Holding.getPortfolioSummary: sums over the stored documents
getPortfolioSummary(holdings) ==
  LET xs == [i \in DOMAIN holdings |-> DocumentValues(holdings[i])]
      totalInvestment_ == SumOf(xs, "investment")
      totalCurrentValue == SumOf(xs, "currentValue")
      totalProfitLoss == SumOf(xs, "profitLoss")
  IN [totalHoldings |-> Len(holdings),
      totalInvestment |-> totalInvestment_,
      totalCurrentValue |-> totalCurrentValue,
      totalProfitLoss |-> totalProfitLoss,
      totalProfitLossPercentage |->
        IF totalInvestment_ > 0
        THEN Times(Divide(totalCurrentValue - totalInvestment_, totalInvestment_), 100)
        ELSE Zero,
      holdings |-> holdings]

\* The collections: the user's holdings and the user's watchlist document.
NoWatchlist == [exists |-> FALSE, coinIds |-> <<>>, lastModified |-> 0]

EmptyDb == [holdings |-> <<>>, watchlist |-> NoWatchlist]

\* req.params.id: whether it is a 24-digit hex string, and the document it names
IdParam(hex24, n) == [hex24 |-> hex24, n |-> n]

NoBody == [coinId |-> "", amount |-> 0, buyPrice |-> 0, id |-> IdParam(FALSE, 0)]

IdleWrite ==
  [pc |-> "idle", route |-> "none", body |-> NoBody, doc |-> Holding(0, "", 1, 0, 0),
   fetch |-> "none", calls |-> 0, dbOps |-> 0, res |-> NoResponse]

ValidationFailed == [status |-> 400, message |-> "Validation failed"]

CoinNotVerified == [status |-> 400, message |-> "Invalid coin ID or coin not found"]

\* coinId.toLowerCase()
LowerId(c) == IF c = "BTC" THEN "btc" ELSE c

\* Mutant: the buy price is not validated.
ValidHoldingBody_anyBuyPrice(b) == b.coinId # "" /\ b.amount >= 1

\* body('coinId').notEmpty(), body('amount').isFloat({ min: 0.00000001 }),
\* body('buyPrice').isFloat({ min: 0 }); amounts are whole units here, so 0 and
\* the negative ones are the amounts below the minimum.
ValidHoldingBody(b) == b.coinId # "" /\ b.amount >= 1 /\ b.buyPrice >= 0

\* body('coinId').notEmpty()
ValidWatchlistBody(b) == b.coinId # ""

\* param('id').isMongoId()
isMongoId(id) == id.hex24

Started(route, b) == [IdleWrite EXCEPT !.route = route, !.body = b]

Rejected(route, b) == [Started(route, b) EXCEPT !.pc = "done", !.res = ValidationFailed]

CoinArgs(coinId) == [Args EXCEPT !.op = "getCoin", !.coinId = coinId]

PriceArgs(coinId) ==
  [Args EXCEPT !.op = "getSimplePrices", !.coinIds = <<coinId>>,
               !.vs_currencies = <<UserCurrency("")>>]

\* POST /api/portfolio/holdings: validation, then the coin is verified.
PostHolding(b) ==
  /\ rt.pc \in {"idle", "done"}
  /\ Len(db.holdings) < MaxDocs
  /\ IF ~ValidHoldingBody(b)
     THEN /\ rt' = Rejected("addHolding", b)
          /\ UNCHANGED svars
     ELSE /\ Call(1, CoinArgs(b.coinId))
          /\ rt' = [Started("addHolding", b) EXCEPT
                      !.calls = 1,
                      !.pc = IF last'.ret = pending THEN "verify" ELSE "verified"]
  /\ UNCHANGED <<db, val>>

\* POST /api/watchlist: validation, then the coin is verified.
PostWatchlist(b) ==
  /\ rt.pc \in {"idle", "done"}
  /\ IF ~ValidWatchlistBody(b)
     THEN /\ rt' = Rejected("addWatchlist", b)
          /\ UNCHANGED svars
     ELSE /\ Call(1, CoinArgs(LowerId(b.coinId)))
          /\ rt' = [Started("addWatchlist", b) EXCEPT
                      !.calls = 1,
                      !.pc = IF last'.ret = pending THEN "verify" ELSE "verified"]
  /\ UNCHANGED <<db, val>>

\* getCoin resolves: the handler goes on.
CoinVerified(v) ==
  /\ rt.pc = "verify"
  /\ RespondOk(1, v)
  /\ rt' = [rt EXCEPT !.pc = "verified"]
  /\ UNCHANGED <<db, val>>

\* Mutant: the watchlist is fetched or created before the coin is verified.
CoinRejected_afterCreate ==
  /\ rt.pc = "verify"
  /\ RespondFail(1)
  /\ rt' = [rt EXCEPT !.pc = "done", !.res = CoinNotVerified]
  /\ db' = [db EXCEPT !.watchlist.exists = TRUE]
  /\ UNCHANGED val

\* getCoin throws: the inner catch answers 400.
CoinRejected ==
  /\ rt.pc = "verify"
  /\ RespondFail(1)
  /\ rt' = [rt EXCEPT !.pc = "done", !.res = CoinNotVerified]
  /\ UNCHANGED <<db, val>>

\* new Holding({...}) of the add route
NewHolding(b) ==
  [Holding(Len(db.holdings) + 1, LowerId(b.coinId), b.amount, b.buyPrice, now)
     EXCEPT !.lastUpdated = now]

\* holding.calculateProfitLoss(prices[coinId]?.[currency] || 0)
Revalued(doc, coinId, prices) ==
  calculateProfitLoss(doc, CurrentPrice(prices, coinId, UserCurrency("")), now)

\* The add route builds the document and asks for the price of its coin.
FetchNewPrice ==
  /\ rt.pc = "verified"
  /\ rt.route = "addHolding"
  /\ Call(1, PriceArgs(rt.body.coinId))
  /\ rt' = IF last'.ret = pending
           THEN [rt EXCEPT !.pc = "price", !.calls = @ + 1, !.doc = NewHolding(rt.body)]
           ELSE [rt EXCEPT !.pc = "saving", !.calls = @ + 1, !.fetch = "hit",
                           !.doc = Revalued(NewHolding(rt.body), rt.body.coinId, last'.ret.v)]
  /\ UNCHANGED <<db, val>>

\* GET /api/portfolio/holdings/:id: validation, findOne, then the price.
GetHolding(id) ==
  /\ rt.pc \in {"idle", "done"}
  /\ LET b == [NoBody EXCEPT !.id = id]
         found == SelectSeq(db.holdings, LAMBDA h : h.id = id.n) IN
     IF ~isMongoId(id)
     THEN /\ rt' = Rejected("getHolding", b)
          /\ UNCHANGED svars
     ELSE IF Len(found) = 0
     THEN /\ rt' = [Started("getHolding", b) EXCEPT
                      !.pc = "done", !.dbOps = 1,
                      !.res = [status |-> 404, message |-> "Holding not found"]]
          /\ UNCHANGED svars
     ELSE /\ Call(1, PriceArgs(found[1].coinId))
          /\ rt' = IF last'.ret = pending
                   THEN [Started("getHolding", b) EXCEPT
                           !.pc = "price", !.dbOps = 1, !.calls = 1, !.doc = found[1]]
                   ELSE [Started("getHolding", b) EXCEPT
                           !.pc = "saving", !.dbOps = 1, !.calls = 1, !.fetch = "hit",
                           !.doc = Revalued(found[1], found[1].coinId, last'.ret.v)]
  /\ UNCHANGED <<db, val>>

\* the coin id the price was asked for
PricedCoin == IF rt.route = "addHolding" THEN rt.body.coinId ELSE rt.doc.coinId

\* getSimplePrices resolves: calculateProfitLoss, then the save.
HoldingPriceArrives(v) ==
  /\ rt.pc = "price"
  /\ RespondOk(1, v)
  /\ rt' = [rt EXCEPT !.pc = "saving", !.fetch = "ok",
                      !.doc = Revalued(rt.doc, PricedCoin, last'.ret.v)]
  /\ UNCHANGED <<db, val>>

\* getSimplePrices throws: the inner catch logs.  The add route still saves the
\* document; the get route answers with the document as it was read.
HoldingPriceFails ==
  /\ rt.pc = "price"
  /\ RespondFail(1)
  /\ rt' = IF rt.route = "addHolding"
           THEN [rt EXCEPT !.pc = "saving", !.fetch = "failed"]
           ELSE [rt EXCEPT !.pc = "done", !.fetch = "failed",
                           !.res = [status |-> 200, data |-> rt.doc]]
  /\ UNCHANGED <<db, val>>

\* holding.save() resolves.
SaveHoldingOk ==
  /\ rt.pc = "saving"
  /\ db' = [db EXCEPT !.holdings =
              IF rt.route = "addHolding" THEN Append(@, rt.doc)
              ELSE [j \in DOMAIN @ |-> IF @[j].id = rt.doc.id THEN rt.doc ELSE @[j]]]
  /\ rt' = [rt EXCEPT !.pc = "done", !.dbOps = @ + 1,
                      !.res = [status |-> IF rt.route = "addHolding" THEN 201 ELSE 200,
                               data |-> rt.doc]]
  /\ UNCHANGED <<svars, val>>

\* holding.save() rejects: 500 from the add route (outer catch); the get route
\* catches it with the price errors and answers with the document.
SaveHoldingFails ==
  /\ rt.pc = "saving"
  /\ rt' = [rt EXCEPT !.pc = "done", !.dbOps = @ + 1,
                      !.res = IF rt.route = "addHolding"
                              THEN [status |-> 500, message |-> "Failed to add holding"]
                              ELSE [status |-> 200, data |-> rt.doc]]
  /\ UNCHANGED <<svars, db, val>>

\* Watchlist.getOrCreateWatchlist, hasCoin, addCoin and save
AddToWatchlist ==
  /\ rt.pc = "verified"
  /\ rt.route = "addWatchlist"
  /\ LET coinId == LowerId(rt.body.coinId)
         watchlist == IF db.watchlist.exists THEN db.watchlist
                      ELSE [NoWatchlist EXCEPT !.exists = TRUE, !.lastModified = now] IN
     IF coinId \in Range(watchlist.coinIds)
     THEN /\ db' = [db EXCEPT !.watchlist = watchlist]
          /\ rt' = [rt EXCEPT !.pc = "done", !.dbOps = @ + 1,
                              !.res = [status |-> 400,
                                       message |-> "Coin is already in your watchlist"]]
     ELSE /\ db' = [db EXCEPT !.watchlist =
                      [watchlist EXCEPT !.coinIds = Append(@, coinId),
                                        !.lastModified = now]]
          /\ rt' = [rt EXCEPT !.pc = "added", !.dbOps = @ + 2]
  /\ UNCHANGED <<svars, val>>

\* the watchlist cannot be read or saved: the outer catch answers 500
WatchlistFails ==
  /\ rt.pc = "verified"
  /\ rt.route = "addWatchlist"
  /\ rt' = [rt EXCEPT !.pc = "done", !.dbOps = @ + 1,
                      !.res = [status |-> 500,
                               message |-> "Failed to add coin to watchlist"]]
  /\ UNCHANGED <<svars, db, val>>

Added(coinDetails) ==
  [status |-> 201,
   data |-> [coinId |-> LowerId(rt.body.coinId), coinDetails |-> coinDetails,
             totalCoins |-> Len(db.watchlist.coinIds)]]

\* coinData[0] || {}
FirstOrEmpty(coinData) ==
  IF Len(coinData.items) > 0 THEN Obj(coinData.items[1]) ELSE Obj(<<>>)

\* the details of the added coin are asked for
FetchDetails ==
  /\ rt.pc = "added"
  /\ Call(1, [Args EXCEPT !.op = "getCoinsByIds",
                          !.coinIds = <<LowerId(rt.body.coinId)>>,
                          !.vs_currency = UserCurrency("")])
  /\ rt' = IF last'.ret = pending
           THEN [rt EXCEPT !.pc = "details", !.calls = @ + 1]
           ELSE [rt EXCEPT !.pc = "done", !.calls = @ + 1,
                           !.res = Added(FirstOrEmpty(last'.ret))]
  /\ UNCHANGED <<db, val>>

DetailsArrive(v) ==
  /\ rt.pc = "details"
  /\ RespondOk(1, v)
  /\ rt' = [rt EXCEPT !.pc = "done", !.res = Added(FirstOrEmpty(last'.ret))]
  /\ UNCHANGED <<db, val>>

\* getCoinsByIds throws: logged, the answer carries empty details
DetailsFail ==
  /\ rt.pc = "details"
  /\ RespondFail(1)
  /\ rt' = [rt EXCEPT !.pc = "done", !.res = Added(Obj(<<>>))]
  /\ UNCHANGED <<db, val>>

\* GET /api/portfolio/summary
GetSummary ==
  /\ rt.pc \in {"idle", "done"}
  /\ rt' = [Started("summary", NoBody) EXCEPT
              !.pc = "done", !.dbOps = 1,
              !.res = [status |-> 200, data |-> getPortfolioSummary(db.holdings)]]
  /\ UNCHANGED <<svars, db, val>>

HoldingBodies ==
  { [NoBody EXCEPT !.coinId = "btc", !.amount = 1, !.buyPrice = 50],
    [NoBody EXCEPT !.coinId = "btc", !.amount = 1, !.buyPrice = 0],
    [NoBody EXCEPT !.coinId = "", !.amount = 1, !.buyPrice = 50],
    [NoBody EXCEPT !.coinId = "btc", !.amount = 0, !.buyPrice = 50],
    [NoBody EXCEPT !.coinId = "btc", !.amount = 1, !.buyPrice = -1] }

WatchlistBodies == { [NoBody EXCEPT !.coinId = c] : c \in {"", "btc", "BTC"} }

IdParams == {IdParam(FALSE, 0), IdParam(TRUE, 1), IdParam(TRUE, 9)}

InitHoldings ==
  /\ InitService
  /\ db = EmptyDb
  /\ rt = IdleWrite
  /\ val = NoValuation

NextHoldings ==
  \/ \E b \in HoldingBodies : PostHolding(b)
  \/ \E b \in WatchlistBodies : PostWatchlist(b)
  \/ \E v \in ResponseChoices(req[1]) : CoinVerified(v)
  \/ CoinRejected
  \/ FetchNewPrice
  \/ \E id \in IdParams : GetHolding(id)
  \/ \E v \in ResponseChoices(req[1]) : HoldingPriceArrives(v)
  \/ HoldingPriceFails
  \/ SaveHoldingOk
  \/ SaveHoldingFails
  \/ AddToWatchlist
  \/ WatchlistFails
  \/ FetchDetails
  \/ \E v \in ResponseChoices(req[1]) : DetailsArrive(v)
  \/ DetailsFail
  \/ GetSummary
  \/ Tick /\ UNCHANGED ovars

SpecHoldings == InitHoldings /\ [][NextHoldings]_vars

----------------------------------------------------------------------------
(* GET /api/portfolio/analytics *)

MaxLen == 6

Min(x, y) == IF x < y THEN x ELSE y
Max(x, y) == IF x > y THEN x ELSE y

\* q1 < q2 and q1 + q2 on finite numbers
Less(q1, q2) == q1.n * q2.d < q2.n * q1.d
Plus(q1, q2) ==
  IF IsFinite(q1) /\ IsFinite(q2) THEN Num(q1.n * q2.d + q2.n * q1.d, q1.d * q2.d)
  ELSE NaN

\* the number a comparator reads from a row
KeyOf(x, field) ==
  IF field = "profitLossPercentage" THEN x[field] ELSE Num(x[field], 1)

\* Array.prototype.sort((a, b) => b[field] - a[field]): descending and stable
RECURSIVE InsertDesc(_, _, _)
InsertDesc(x, t, field) ==
  IF Len(t) = 0 THEN <<x>>
  ELSE IF Less(KeyOf(x, field), KeyOf(Head(t), field))
  THEN <<Head(t)>> \o InsertDesc(x, Tail(t), field)
  ELSE <<x>> \o t

RECURSIVE SortDesc(_, _)
SortDesc(s, field) ==
  IF Len(s) = 0 THEN <<>> ELSE InsertDesc(Head(s), SortDesc(Tail(s), field), field)

\* Array.prototype.reverse
Reverse(s) == [i \in DOMAIN s |-> s[Len(s) + 1 - i]]

\* slice(0, n) and slice(-n)
SliceFirst(s, n) == SubSeq(s, 1, Min(n, Len(s)))
SliceLast(s, n) == SubSeq(s, Max(1, Len(s) - n + 1), Len(s))

\* one element of holdingsWithCalc
WithCalc(h, currentPrices, currency) ==
  LET x == AnalyticsValuation(h, CurrentPrice(currentPrices, h.coinId, currency)) IN
  [id |-> h.id, coinId |-> h.coinId, amount |-> h.amount, buyPrice |-> h.buyPrice,
   currentPrice |-> x.currentPrice, currentValue |-> x.currentValue,
   profitLoss |-> x.profitLoss, profitLossPercentage |-> x.profitLossPercentage,
   investment |-> x.investment]

sortedByPerformance(holdingsWithCalc) == SortDesc(holdingsWithCalc, "profitLossPercentage")

topPerformers(sorted) == SliceFirst(sorted, 5)

\* Mutant: the last five, not reversed.
worstPerformers_notReversed(sorted) == SliceLast(sorted, 5)

worstPerformers(sorted) == Reverse(SliceLast(sorted, 5))

\* Mutant: the percentage without the guard on the total.
AllocationPercentage_unguarded(x, total) == Times(Divide(x, total), 100)

\* total > 0 ? (x / total) * 100 : 0
AllocationPercentage(x, total) ==
  IF total > 0 THEN Times(Divide(x, total), 100) ELSE Zero

allocationByValue(holdingsWithCalc, totalCurrentValue) ==
  LET kept == SelectSeq(holdingsWithCalc, LAMBDA h : h.currentValue > 0) IN
  SortDesc([i \in DOMAIN kept |->
              [id |-> kept[i].id, coinId |-> kept[i].coinId,
               value |-> kept[i].currentValue,
               percentage |-> AllocationPercentage(kept[i].currentValue,
                                                   totalCurrentValue)]],
           "value")

allocationByInvestment(holdingsWithCalc, totalInvestment_) ==
  SortDesc([i \in DOMAIN holdingsWithCalc |->
              [id |-> holdingsWithCalc[i].id, coinId |-> holdingsWithCalc[i].coinId,
               investment |-> holdingsWithCalc[i].investment,
               percentage |-> AllocationPercentage(holdingsWithCalc[i].investment,
                                                   totalInvestment_)]],
           "investment")

\* the analytics of a portfolio without holdings
EmptyAnalytics ==
  [status |-> 200,
   data |-> [totalHoldings |-> 0, totalInvestment |-> 0, totalCurrentValue |-> 0,
             totalProfitLoss |-> 0, totalProfitLossPercentage |-> Zero,
             topPerformers |-> <<>>, worstPerformers |-> <<>>,
             allocationByValue |-> <<>>, allocationByInvestment |-> <<>>]]

Analytics(holdingsWithCalc, currency) ==
  LET totalInvestment_ == SumOf(holdingsWithCalc, "investment")
      totalCurrentValue == SumOf(holdingsWithCalc, "currentValue")
      sorted == sortedByPerformance(holdingsWithCalc)
      totalProfitLoss == totalCurrentValue - totalInvestment_
  IN [status |-> 200,
      data |-> [totalHoldings |-> Len(holdingsWithCalc),
                totalInvestment |-> totalInvestment_,
                totalCurrentValue |-> totalCurrentValue,
                totalProfitLoss |-> totalProfitLoss,
                totalProfitLossPercentage |->
                  IF totalInvestment_ > 0
                  THEN Times(Divide(totalProfitLoss, totalInvestment_), 100)
                  ELSE Zero,
                topPerformers |-> topPerformers(sorted),
                worstPerformers |-> worstPerformers(sorted),
                allocationByValue |-> allocationByValue(holdingsWithCalc, totalCurrentValue),
                allocationByInvestment |->
                  allocationByInvestment(holdingsWithCalc, totalInvestment_),
                currency |-> currency]]

IdleAnalytics == [pc |-> "idle", holdingsWithCalc |-> <<>>, res |-> NoResponse]

\* One request, from the read of the holdings to the answer; currentPrices is
\* what the price fetch left: the answer of getSimplePrices, or {} when it threw.
GetAnalytics(currentPrices) ==
  /\ rt.pc = "idle"
  /\ LET holdings == SortByPurchaseDateDesc(db)
         currency == UserCurrency("")
         holdingsWithCalc ==
           [i \in DOMAIN holdings |-> WithCalc(holdings[i], currentPrices, currency)] IN
     rt' = IF Len(holdings) = 0
           THEN [pc |-> "done", holdingsWithCalc |-> <<>>, res |-> EmptyAnalytics]
           ELSE [pc |-> "done", holdingsWithCalc |-> holdingsWithCalc,
                 res |-> Analytics(holdingsWithCalc, currency)]
  /\ UNCHANGED <<svars, db, val>>

\* Holding.find rejects: the outer catch answers 500.
AnalyticsFails ==
  /\ rt.pc = "idle"
  /\ rt' = [pc |-> "done", holdingsWithCalc |-> <<>>,
            res |-> [status |-> 500,
                     message |-> "Failed to retrieve portfolio analytics"]]
  /\ UNCHANGED <<svars, db, val>>

\* The kinds of holding of the inputs: a gain, a loss and a coin got for free;
\* holdings of one kind tie.
HoldingKinds ==
  { [coinId |-> "btc", amount |-> 1, buyPrice |-> 50],
    [coinId |-> "eth", amount |-> 3, buyPrice |-> 100],
    [coinId |-> "btc", amount |-> 2, buyPrice |-> 0] }

\* Holdings bought one after the other: the later ones are found first.
AnalyticsInputs ==
  UNION { { [i \in 1..n |-> Holding(i, ks[i].coinId, ks[i].amount, ks[i].buyPrice, i)] :
              ks \in [1..n -> HoldingKinds] } : n \in 0..MaxLen }

AnalyticsPrices ==
  { <<>>,
    [c \in {"btc"} |-> [cur \in {"usd"} |-> PriceOf(c, 1)]],
    [c \in {"btc", "eth"} |-> [cur \in {"usd"} |-> PriceOf(c, 1)]] }

InitAnalytics ==
  /\ InitService
  /\ db \in AnalyticsInputs
  /\ rt = IdleAnalytics
  /\ val = NoValuation

NextAnalytics ==
  \/ \E currentPrices \in AnalyticsPrices : GetAnalytics(currentPrices)
  \/ AnalyticsFails

SpecAnalytics == InitAnalytics /\ [][NextAnalytics]_vars

----------------------------------------------------------------------------
(* GET /api/crypto/coin/:id *)

\* Why a request to the provider is rejected: the provider answers 404 for an
\* unknown coin, answers 5xx, or does not answer (network error, timeout).
FailureCauses == {"notFound", "server", "network", "timeout"}

CoinIdParams == {" ", "btc", "nocoin"}

NoOutcome == [thrown |-> null, res |-> NoResponse]

\* outcomes: what the caller got for each coin and cause of failure so far
IdleCoin ==
  [pc |-> "idle", id |-> "", cause |-> "none", res |-> NoResponse,
   outcomes |-> [x \in CoinIdParams \X FailureCauses |-> NoOutcome]]

\* !id || id.trim().length === 0
IsBlank(id) == id \in {"", " "}

GetCoinRoute(id) ==
  /\ rt.pc \in {"idle", "done"}
  /\ IF IsBlank(id)
     THEN /\ rt' = [rt EXCEPT !.pc = "done", !.id = id, !.cause = "none",
                              !.res = [status |-> 400, message |-> "Coin ID is required"]]
          /\ UNCHANGED svars
     ELSE /\ Call(1, CoinArgs(id))
          /\ rt' = IF last'.ret = pending
                   THEN [rt EXCEPT !.pc = "coin", !.id = id, !.cause = "none",
                                   !.res = NoResponse]
                   ELSE [rt EXCEPT !.pc = "done", !.id = id, !.cause = "none",
                                   !.res = [status |-> 200, data |-> last'.ret]]
  /\ UNCHANGED <<db, val>>

CoinArrives(v) ==
  /\ rt.pc = "coin"
  /\ RespondOk(1, v)
  /\ rt' = [rt EXCEPT !.pc = "done", !.res = [status |-> 200, data |-> last'.ret]]
  /\ UNCHANGED <<db, val>>

\* this.api.get rejects for the given cause: getCoin throws its Error, the
\* route answers 404 with the message of that Error.
CoinFails(cause) ==
  /\ rt.pc = "coin"
  /\ RespondFail(1)
  /\ LET res == [status |-> 404,
                 message |-> "Coin not found or failed to fetch coin data",
                 error |-> last'.ret.message] IN
     rt' = [rt EXCEPT !.pc = "done", !.cause = cause, !.res = res,
                      !.outcomes[<<rt.id, cause>>] = [thrown |-> last'.ret, res |-> res]]
  /\ UNCHANGED <<db, val>>

InitCoin ==
  /\ InitService
  /\ db = <<>>
  /\ rt = IdleCoin
  /\ val = NoValuation

NextCoin ==
  \/ \E id \in CoinIdParams : GetCoinRoute(id)
  \/ \E v \in ResponseChoices(req[1]) : CoinArrives(v)
  \/ \E cause \in FailureCauses : CoinFails(cause)
  \/ ClearCache /\ UNCHANGED ovars
  \/ Tick /\ UNCHANGED ovars

SpecCoin == InitCoin /\ [][NextCoin]_vars

----------------------------------------------------------------------------
(* GET /api/crypto/cache/stats and POST /api/crypto/cache/clear *)

\* process.env.NODE_ENV as the process was started
Environments == {"production", "development", "test", ""}

NotFound == [status |-> 404, message |-> "Not found"]

IdleAdmin(env) == [pc |-> "idle", env |-> env, route |-> "none", res |-> NoResponse]

CacheStatsRoute ==
  /\ IF rt.env = "production"
     THEN /\ rt' = [rt EXCEPT !.pc = "done", !.route = "stats", !.res = NotFound]
          /\ UNCHANGED svars
     ELSE /\ GetCacheStats
          /\ rt' = [rt EXCEPT !.pc = "done", !.route = "stats",
                              !.res = [status |-> 200, message |-> "Cache stats retrieved",
                                       data |-> last'.ret]]
  /\ UNCHANGED <<db, val>>

\* Mutant: the cache is cleared whatever NODE_ENV is.
CacheClearRoute_unguarded ==
  /\ ClearCache
  /\ rt' = [rt EXCEPT !.pc = "done", !.route = "clear",
                      !.res = [status |-> 200, message |-> "Cache cleared successfully"]]
  /\ UNCHANGED <<db, val>>

CacheClearRoute ==
  /\ IF rt.env = "production"
     THEN /\ rt' = [rt EXCEPT !.pc = "done", !.route = "clear", !.res = NotFound]
          /\ UNCHANGED svars
     ELSE /\ ClearCache
          /\ rt' = [rt EXCEPT !.pc = "done", !.route = "clear",
                              !.res = [status |-> 200,
                                       message |-> "Cache cleared successfully"]]
  /\ UNCHANGED <<db, val>>

InitAdmin ==
  /\ InitService
  /\ db = <<>>
  /\ \E env \in Environments : rt = IdleAdmin(env)
  /\ val = NoValuation

NextAdmin ==
  \/ \E a \in Invocations : Call(1, a) /\ UNCHANGED ovars
  \/ \E v \in ResponseChoices(req[1]) : RespondOk(1, v) /\ UNCHANGED ovars
  \/ RespondFail(1) /\ UNCHANGED ovars
  \/ CacheStatsRoute
  \/ CacheClearRoute
  \/ Tick /\ UNCHANGED ovars

SpecAdmin == InitAdmin /\ [][NextAdmin]_vars

----------------------------------------------------------------------------
(* The request timer of the HTTP client *)

\* axios.create({ timeout }) in milliseconds
timeout == 10000

\* Mutant: no timer is ever due (a client created without a timeout).
Deadline_never(sent) == (MaxTicks + 1) * TickStep + sent

\* The instant at which the timer of a request sent at `sent` fires.
Deadline(sent) == sent + timeout

NoTimers == [r \in Requests |-> 0]

\* A method call; a miss sends the request and arms its timer.
CallTimed(r, a) ==
  /\ now < MaxTicks * TickStep
  /\ Call(r, a)
  /\ rt' = [rt EXCEPT ![r] = IF req'[r].pc = "waiting" THEN Deadline(now) ELSE @]
  /\ UNCHANGED <<db, val>>

\* The provider answers 2xx before the timer is due.
ResponseArrives(r, v) ==
  /\ now < rt[r]
  /\ RespondOk(r, v)
  /\ UNCHANGED ovars

\* The provider answers with an error status, or the connection fails, before
\* the timer is due.
RequestErrors(r) ==
  /\ now < rt[r]
  /\ RespondFail(r)
  /\ UNCHANGED ovars

\* The timer is due: axios aborts the request and rejects, the interceptor
\* rethrows, the method's catch throws its Error.
TimeoutFires(r) ==
  /\ now >= rt[r]
  /\ RespondFail(r)
  /\ UNCHANGED ovars

TimePasses == Tick /\ UNCHANGED ovars

InitTimeout ==
  /\ InitService
  /\ db = <<>>
  /\ rt = NoTimers
  /\ val = NoValuation

NextTimeout ==
  \/ \E r \in Requests, a \in Invocations : CallTimed(r, a)
  \/ \E r \in Requests : \E v \in ResponseChoices(req[r]) : ResponseArrives(r, v)
  \/ \E r \in Requests : RequestErrors(r)
  \/ \E r \in Requests : TimeoutFires(r)
  \/ TimePasses

\* Time advances, and a timer that is due fires.
TimersRun == WF_vars(TimePasses) /\ \A r \in Requests : WF_vars(TimeoutFires(r))

SpecTimeout == InitTimeout /\ [][NextTimeout]_vars /\ TimersRun

----------------------------------------------------------------------------
(* The watchlist model and the routes of /api/watchlist *)

MaxList == 2

\* watchlistSchema.methods.hasCoin
hasCoin(w, coinId) == coinId \in Range(w.coinIds)

\* watchlistSchema.methods.addCoin
addCoin(w, coinId, t) ==
  IF ~hasCoin(w, coinId)
  THEN [w EXCEPT !.coinIds = Append(@, coinId), !.lastModified = t]
  ELSE w

\* watchlistSchema.methods.removeCoin
removeCoin(w, coinId, t) ==
  [w EXCEPT !.coinIds = SelectSeq(@, LAMBDA id : id # coinId), !.lastModified = t]

\* watchlistSchema.statics.getOrCreateWatchlist
getOrCreateWatchlist(w, t) ==
  IF w.exists THEN w ELSE [NoWatchlist EXCEPT !.exists = TRUE, !.lastModified = t]

\* coinIds.map(id => id.toLowerCase().trim())
trimmedCoinIds(coinIds) == [i \in DOMAIN coinIds |-> LowerId(coinIds[i])]

IdleWatchlist ==
  [route |-> "none", coinIds |-> <<>>, before |-> <<>>, res |-> NoResponse]

Answer(route, coinIds, status, message) ==
  [route |-> route, coinIds |-> coinIds, before |-> db.coinIds,
   res |-> [status |-> status, message |-> message]]

\* POST /api/watchlist; `known` are the coins getCoin finds, `saved` tells
\* whether the database operations succeed.
WatchlistAdd(coinId, known, saved) ==
  LET id == LowerId(coinId)
      watchlist == getOrCreateWatchlist(db, now) IN
  /\ IF coinId = ""
     THEN rt' = Answer("add", <<coinId>>, 400, "Validation failed") /\ UNCHANGED db
     ELSE IF id \notin known
     THEN /\ rt' = Answer("add", <<coinId>>, 400, "Invalid coin ID or coin not found")
          /\ UNCHANGED db
     ELSE IF ~saved
     THEN /\ rt' = Answer("add", <<coinId>>, 500, "Failed to add coin to watchlist")
          /\ UNCHANGED db
     ELSE IF hasCoin(watchlist, id)
     THEN /\ rt' = Answer("add", <<coinId>>, 400, "Coin is already in your watchlist")
          /\ db' = watchlist
     ELSE /\ rt' = Answer("add", <<coinId>>, 201, "Coin added to watchlist successfully")
          /\ db' = [addCoin(watchlist, id, now) EXCEPT !.lastModified = now]
  /\ UNCHANGED <<svars, val>>

\* DELETE /api/watchlist/:coinId
WatchlistRemove(coinId, saved) ==
  LET id == LowerId(coinId) IN
  /\ IF coinId = ""
     THEN rt' = Answer("remove", <<coinId>>, 400, "Validation failed") /\ UNCHANGED db
     ELSE IF ~db.exists
     THEN rt' = Answer("remove", <<coinId>>, 404, "Watchlist not found") /\ UNCHANGED db
     ELSE IF ~hasCoin(db, id)
     THEN /\ rt' = Answer("remove", <<coinId>>, 404, "Coin not found in watchlist")
          /\ UNCHANGED db
     ELSE IF ~saved
     THEN /\ rt' = Answer("remove", <<coinId>>, 500, "Failed to remove coin from watchlist")
          /\ UNCHANGED db
     ELSE /\ rt' = Answer("remove", <<coinId>>, 200,
                          "Coin removed from watchlist successfully")
          /\ db' = removeCoin(db, id, now)
  /\ UNCHANGED <<svars, val>>

\* the loop of POST /api/watchlist/batch: [document, number of coins added]
RECURSIVE BatchLoop(_, _, _, _)
BatchLoop(w, ids, known, added) ==
  IF Len(ids) = 0 THEN [watchlist |-> w, added |-> added]
  ELSE IF hasCoin(w, Head(ids)) THEN BatchLoop(w, Tail(ids), known, added)
  ELSE IF Head(ids) \notin known THEN BatchLoop(w, Tail(ids), known, added)
  ELSE BatchLoop(addCoin(w, Head(ids), now), Tail(ids), known, added + 1)

\* POST /api/watchlist/batch
WatchlistBatch(coinIds, known, saved) ==
  /\ IF Len(coinIds) < 1 \/ \E i \in DOMAIN coinIds : coinIds[i] = ""
     THEN rt' = Answer("batch", coinIds, 400, "Validation failed") /\ UNCHANGED db
     ELSE IF Len(coinIds) > 50
     THEN /\ rt' = Answer("batch", coinIds, 400, "Maximum 50 coins can be added at once")
          /\ UNCHANGED db
     ELSE IF ~saved
     THEN /\ rt' = Answer("batch", coinIds, 500,
                          "Failed to process batch watchlist operation")
          /\ UNCHANGED db
     ELSE LET out == BatchLoop(getOrCreateWatchlist(db, now), trimmedCoinIds(coinIds),
                               known, 0) IN
          /\ rt' = Answer("batch", coinIds, 200, "Batch operation completed")
          /\ db' = IF out.added > 0 THEN [out.watchlist EXCEPT !.lastModified = now]
                   ELSE getOrCreateWatchlist(db, now)
  /\ UNCHANGED <<svars, val>>

\* PUT /api/watchlist/reorder
WatchlistReorder(coinIds, saved) ==
  LET ids == trimmedCoinIds(coinIds)
      missingCoins == SelectSeq(ids, LAMBDA id : ~hasCoin(db, id))
      extraCoins == SelectSeq(db.coinIds, LAMBDA id : id \notin Range(ids)) IN
  /\ IF \E i \in DOMAIN coinIds : coinIds[i] = ""
     THEN rt' = Answer("reorder", coinIds, 400, "Validation failed") /\ UNCHANGED db
     ELSE IF ~db.exists
     THEN rt' = Answer("reorder", coinIds, 404, "Watchlist not found") /\ UNCHANGED db
     ELSE IF Len(missingCoins) > 0
     THEN /\ rt' = Answer("reorder", coinIds, 400, "Some coins are not in your watchlist")
          /\ UNCHANGED db
     ELSE IF Len(extraCoins) > 0
     THEN /\ rt' = Answer("reorder", coinIds, 400,
                          "Reorder list is missing some coins from your watchlist")
          /\ UNCHANGED db
     ELSE IF ~saved
     THEN /\ rt' = Answer("reorder", coinIds, 500, "Failed to reorder watchlist")
          /\ UNCHANGED db
     ELSE /\ rt' = Answer("reorder", coinIds, 200, "Watchlist reordered successfully")
          /\ db' = [db EXCEPT !.coinIds = ids, !.lastModified = now]
  /\ UNCHANGED <<svars, val>>

\* DELETE /api/watchlist
WatchlistClear(saved) ==
  /\ IF ~db.exists
     THEN rt' = Answer("clear", <<>>, 404, "Watchlist not found") /\ UNCHANGED db
     ELSE IF ~saved
     THEN rt' = Answer("clear", <<>>, 500, "Failed to clear watchlist") /\ UNCHANGED db
     ELSE /\ rt' = Answer("clear", <<>>, 200, "Watchlist cleared successfully")
          /\ db' = [db EXCEPT !.coinIds = <<>>, !.lastModified = now]
  /\ UNCHANGED <<svars, val>>

\* the coin ids a client may send, and the lists of them
SentCoinIds == {"", "btc", "BTC", "eth"}

SentLists == UNION { [1..n -> SentCoinIds] : n \in 0..MaxList }

KnownCoins == {{"btc", "eth"}, {"btc"}}

InitWatchlist ==
  /\ InitService
  /\ db = NoWatchlist
  /\ rt = IdleWatchlist
  /\ val = NoValuation

NextWatchlist ==
  \/ \E c \in SentCoinIds, known \in KnownCoins, saved \in BOOLEAN :
       WatchlistAdd(c, known, saved)
  \/ \E c \in SentCoinIds, saved \in BOOLEAN : WatchlistRemove(c, saved)
  \/ \E l \in SentLists, known \in KnownCoins, saved \in BOOLEAN :
       WatchlistBatch(l, known, saved)
  \/ \E l \in SentLists, saved \in BOOLEAN : WatchlistReorder(l, saved)
  \/ \E saved \in BOOLEAN : WatchlistClear(saved)

SpecWatchlist == InitWatchlist /\ [][NextWatchlist]_vars

----------------------------------------------------------------------------
(* Authentication and the holdings of several users *)

Users == {"A", "B"}

\* the Authorization header: none, a forged token, the tokens of the two users,
\* and a valid token of a user since deleted
Authorizations == {"", "Bearer forged", "Bearer A", "Bearer B", "Bearer C"}

\* jwt.verify(token, JWT_SECRET).userId; "" when verification throws
decoded(authHeader) ==
  CASE authHeader = "Bearer A" -> "A"
    [] authHeader = "Bearer B" -> "B"
    [] authHeader = "Bearer C" -> "C"
    [] OTHER -> ""

\* The auth middleware: req.user, or the 401 it answers.
auth(authHeader) ==
  IF authHeader = ""
  THEN [user |-> "", res |-> [status |-> 401,
                              message |-> "No token provided, authorization denied"]]
  ELSE IF decoded(authHeader) = ""
  THEN [user |-> "", res |-> [status |-> 401, message |-> "Invalid token"]]
  ELSE IF decoded(authHeader) \notin Users
  THEN [user |-> "", res |-> [status |-> 401,
                              message |-> "Token is valid but user not found"]]
  ELSE [user |-> decoded(authHeader), res |-> NoResponse]

\* a holding document with its owner
OwnedBy(userId, h) ==
  [f \in DOMAIN h \cup {"userId"} |-> IF f = "userId" THEN userId ELSE h[f]]

\* Mutant: the document is looked up by its id alone.
findOne_anyUser(docs, id, userId) == SelectSeq(docs, LAMBDA h : h.id = id)

\* Holding.findOne({ _id, userId }): the documents that match (none or one)
findOne(docs, id, userId) ==
  SelectSeq(docs, LAMBDA h : h.id = id /\ h.userId = userId)

\* Holding.find({ userId })
find(docs, userId) == SelectSeq(docs, LAMBDA h : h.userId = userId)

HoldingNotFound == [status |-> 404, message |-> "Holding not found"]

IdleUser ==
  [route |-> "none", authHeader |-> "", user |-> "", id |-> IdParam(FALSE, 0),
   before |-> <<>>, res |-> NoResponse]

Request(route, authHeader, id, res) ==
  [route |-> route, authHeader |-> authHeader, user |-> auth(authHeader).user,
   id |-> id, before |-> db, res |-> res]

Replace(docs, doc) == [i \in DOMAIN docs |-> IF docs[i].id = doc.id THEN doc ELSE docs[i]]

\* what the price lookup of a route gave: the quotes, or a thrown error
Fetched ==
  { [ok |-> TRUE, prices |-> [c \in {"btc"} |-> [cur \in {"usd"} |-> 150]]],
    [ok |-> TRUE, prices |-> <<>>],
    [ok |-> FALSE, prices |-> <<>>] }

\* GET /api/portfolio/holdings/:id
GetHoldingAs(authHeader, id, fetched) ==
  LET who == auth(authHeader)
      found == findOne(db, id.n, who.user) IN
  /\ IF who.user = ""
     THEN rt' = Request("get", authHeader, id, who.res) /\ UNCHANGED db
     ELSE IF ~isMongoId(id)
     THEN rt' = Request("get", authHeader, id, ValidationFailed) /\ UNCHANGED db
     ELSE IF Len(found) = 0
     THEN rt' = Request("get", authHeader, id, HoldingNotFound) /\ UNCHANGED db
     ELSE LET holding == IF fetched.ok
                         THEN calculateProfitLoss(found[1],
                                CurrentPrice(fetched.prices, found[1].coinId, "usd"), now)
                         ELSE found[1] IN
          /\ rt' = Request("get", authHeader, id, [status |-> 200, data |-> <<holding>>])
          /\ db' = Replace(db, holding)
  /\ UNCHANGED <<svars, val>>

\* PUT /api/portfolio/holdings/:id with a new amount
PutHoldingAs(authHeader, id, amount, fetched) ==
  LET who == auth(authHeader)
      found == findOne(db, id.n, who.user) IN
  /\ IF who.user = ""
     THEN rt' = Request("put", authHeader, id, who.res) /\ UNCHANGED db
     ELSE IF ~isMongoId(id) \/ amount < 1
     THEN rt' = Request("put", authHeader, id, ValidationFailed) /\ UNCHANGED db
     ELSE IF Len(found) = 0
     THEN rt' = Request("put", authHeader, id, HoldingNotFound) /\ UNCHANGED db
     ELSE LET updated == [found[1] EXCEPT !.amount = amount]
              holding == IF fetched.ok
                         THEN calculateProfitLoss(updated,
                                CurrentPrice(fetched.prices, updated.coinId, "usd"), now)
                         ELSE updated IN
          /\ rt' = Request("put", authHeader, id, [status |-> 200, data |-> <<holding>>])
          /\ db' = Replace(db, holding)
  /\ UNCHANGED <<svars, val>>

\* DELETE /api/portfolio/holdings/:id
DeleteHoldingAs(authHeader, id) ==
  LET who == auth(authHeader)
      found == findOne(db, id.n, who.user) IN
  /\ IF who.user = ""
     THEN rt' = Request("delete", authHeader, id, who.res) /\ UNCHANGED db
     ELSE IF ~isMongoId(id)
     THEN rt' = Request("delete", authHeader, id, ValidationFailed) /\ UNCHANGED db
     ELSE IF Len(found) = 0
     THEN rt' = Request("delete", authHeader, id, HoldingNotFound) /\ UNCHANGED db
     ELSE /\ rt' = Request("delete", authHeader, id, [status |-> 200, data |-> found])
          /\ db' = SelectSeq(db, LAMBDA h : h.id # found[1].id)
  /\ UNCHANGED <<svars, val>>

\* GET /api/portfolio: the user's holdings are valued and saved
GetPortfolioAs(authHeader, fetched) ==
  LET who == auth(authHeader)
      holdings == SortByPurchaseDateDesc(find(db, who.user))
      updatedHoldings ==
        [i \in DOMAIN holdings |->
           UpdateHolding(holdings[i],
             PortfolioValuation(holdings[i],
               CurrentPrice(fetched.prices, holdings[i].coinId, "usd")), now)] IN
  /\ IF who.user = ""
     THEN rt' = Request("portfolio", authHeader, IdParam(FALSE, 0), who.res)
          /\ UNCHANGED db
     ELSE /\ rt' = Request("portfolio", authHeader, IdParam(FALSE, 0),
                           [status |-> 200, data |-> updatedHoldings])
          /\ db' = [i \in DOMAIN db |->
                      IF \E j \in DOMAIN updatedHoldings : updatedHoldings[j].id = db[i].id
                      THEN CHOOSE h \in Range(updatedHoldings) : h.id = db[i].id
                      ELSE db[i]]
  /\ UNCHANGED <<svars, val>>

\* the stored holdings of two users
TwoUsersHoldings ==
  << OwnedBy("A", Holding(1, "btc", 2, 100, 1)),
     OwnedBy("A", Holding(2, "eth", 1, 50, 2)),
     OwnedBy("B", Holding(3, "btc", 1, 50, 3)) >>

SentIds == {IdParam(FALSE, 0), IdParam(TRUE, 1), IdParam(TRUE, 3), IdParam(TRUE, 9)}

InitUsers ==
  /\ InitService
  /\ db = TwoUsersHoldings
  /\ rt = IdleUser
  /\ val = NoValuation

NextUsers ==
  \/ \E h \in Authorizations, id \in SentIds, f \in Fetched : GetHoldingAs(h, id, f)
  \/ \E h \in Authorizations, id \in SentIds, amount \in {0, 3}, f \in Fetched :
       PutHoldingAs(h, id, amount, f)
  \/ \E h \in Authorizations, id \in SentIds : DeleteHoldingAs(h, id)
  \/ \E h \in Authorizations, f \in Fetched : GetPortfolioAs(h, f)

SpecUsers == InitUsers /\ [][NextUsers]_vars

----------------------------------------------------------------------------
(* Specifications of the service *)

Init ==
  /\ InitService
  /\ db = <<>>
  /\ rt = IdleRoute
  /\ val = NoValuation

Next ==
  \/ \E r \in Requests, a \in Invocations : Call(r, a) /\ UNCHANGED ovars
  \/ \E r \in Requests : \E v \in ResponseChoices(req[r]) : RespondOk(r, v) /\ UNCHANGED ovars
  \/ \E r \in Requests : RespondFail(r) /\ UNCHANGED ovars
  \/ ClearCache /\ UNCHANGED ovars
  \/ GetCacheStats /\ UNCHANGED ovars
  \/ Tick /\ UNCHANGED ovars

Spec == Init /\ [][Next]_vars

\* The nine methods, one call at a time.
NextOps ==
  \/ \E a \in OpInvocations : Call(1, a) /\ UNCHANGED ovars
  \/ \E v \in ResponseChoices(req[1]) : RespondOk(1, v) /\ UNCHANGED ovars
  \/ RespondFail(1) /\ UNCHANGED ovars
  \/ ClearCache /\ UNCHANGED ovars
  \/ GetCacheStats /\ UNCHANGED ovars
  \/ Tick /\ UNCHANGED ovars

SpecOps == Init /\ [][NextOps]_vars

NextKeys ==
  \/ \E r \in Requests, a \in KeyInvocations : Call(r, a) /\ UNCHANGED ovars
  \/ \E r \in Requests : \E v \in ResponseChoices(req[r]) : RespondOk(r, v) /\ UNCHANGED ovars
  \/ \E r \in Requests : RespondFail(r) /\ UNCHANGED ovars
  \/ ClearCache /\ UNCHANGED ovars
  \/ GetCacheStats /\ UNCHANGED ovars
  \/ Tick /\ UNCHANGED ovars

SpecKeys == Init /\ [][NextKeys]_vars

NextDegenerate ==
  \/ \E r \in Requests, a \in DegenerateInvocations : Call(r, a) /\ UNCHANGED ovars
  \/ \E r \in Requests : \E v \in ResponseChoices(req[r]) : RespondOk(r, v) /\ UNCHANGED ovars
  \/ \E r \in Requests : RespondFail(r) /\ UNCHANGED ovars
  \/ ClearCache /\ UNCHANGED ovars
  \/ Tick /\ UNCHANGED ovars

SpecDegenerate == Init /\ [][NextDegenerate]_vars

----------------------------------------------------------------------------
(* Claims about the cache *)

AllKeys ==
  {CacheKey(a) : a \in Invocations \cup OpInvocations \cup KeyInvocations}
    \cup DOMAIN cache \cup DOMAIN lastSet

\* C1: getCachedData(k) returns the value of the most recent setCachedData(k, v)
\* exactly when such a set exists (since the last clear) and now - storedAt < 60000,
\* and null otherwise; right after a set the get returns the value just stored.
C1_GetReturnsFreshValue ==
  /\ \A k \in AllKeys :
       getCachedData(cache, k, now) =
         IF k \in DOMAIN lastSet /\ now - lastSet[k].at < 60000
         THEN lastSet[k].v
         ELSE null
  /\ last.op = "respondOk" => getCachedData(cache, CacheKey(last.a), now) = last.ret

\* One entry is exactly ttl old, still in the map and absent for get, while
\* another entry is served.
C1_Witness ==
  /\ \E k \in DOMAIN cache :
       /\ now - cache[k].timestamp = 60000
       /\ getCachedData(cache, k, now) = null
  /\ \E k \in DOMAIN cache : getCachedData(cache, k, now) = cache[k].data

\* C2: a set overwrites the entry of its key whatever its age, restarts its
\* lifetime at the time of the set, leaves the number of entries unchanged when
\* the key was present, and leaves every other entry as it was.
C2_SetOverwrites ==
  last.op = "respondOk" =>
    LET k == CacheKey(last.a) IN
    /\ cache[k] = [data |-> last.ret, timestamp |-> now]
    /\ \A d \in {0, 1, 59999} : getCachedData(cache, k, now + d) = last.ret
    /\ \A d \in {60000, 60001} : getCachedData(cache, k, now + d) = null
    /\ DOMAIN cache = DOMAIN last.pre \cup {k}
    /\ k \in DOMAIN last.pre =>
         Cardinality(DOMAIN cache) = Cardinality(DOMAIN last.pre)
    /\ \A k2 \in DOMAIN last.pre \ {k} : cache[k2] = last.pre[k2]

\* A set has replaced an entry that was still fresh and held other data.
C2_Witness ==
  /\ last.op = "respondOk"
  /\ CacheKey(last.a) \in DOMAIN last.pre
  /\ now - last.pre[CacheKey(last.a)].timestamp < 60000
  /\ last.pre[CacheKey(last.a)].data # last.ret

\* C3: right after clearCache the stats report size 0 and no keys, and every
\* key is absent.
C3_ClearDropsAll ==
  last.op = "clearCache" =>
    /\ getCacheStats(cache).size = 0
    /\ getCacheStats(cache).keys = {}
    /\ \A k \in AllKeys \cup DOMAIN last.pre : getCachedData(cache, k, now) = null

\* A clear of a cache that held a fresh entry.
C3_Witness ==
  /\ last.op = "clearCache"
  /\ \E k \in DOMAIN last.pre : getCachedData(last.pre, k, now) # null

\* C4: getCacheStats leaves the cache as it was and reports the size and keys
\* of all entries physically present, expired ones included.
C4_StatsDoesNotMutate ==
  last.op = "getCacheStats" =>
    /\ cache = last.pre
    /\ last.ret.size = Cardinality(DOMAIN last.pre)
    /\ last.ret.keys = DOMAIN last.pre

\* Stats taken while an expired entry is present: it is counted and kept.
C4_Witness ==
  /\ last.op = "getCacheStats"
  /\ \E k \in DOMAIN cache :
       /\ getCachedData(cache, k, now) = null
       /\ k \in last.ret.keys

\* C5: only clearCache removes entries; a lookup changes nothing (it neither
\* deletes an expired entry nor refreshes a timestamp); an entry changes only
\* by a set of its own key.
C5_OnlyClearRemoves ==
  /\ last.op # "clearCache" => DOMAIN last.pre \subseteq DOMAIN cache
  /\ last.op = "call" => cache = last.pre
  /\ last.op \notin {"clearCache", "respondOk"} => cache = last.pre
  /\ last.op = "respondOk" =>
       \A k \in DOMAIN last.pre \ {CacheKey(last.a)} : cache[k] = last.pre[k]

\* A lookup missed on an expired entry, and the entry is still there,
\* with its old timestamp.
C5_Witness ==
  /\ last.op = "call"
  /\ last.ret = pending
  /\ CacheKey(last.a) \in DOMAIN cache
  /\ now - cache[CacheKey(last.a)].timestamp >= 60000

----------------------------------------------------------------------------
(* Claims about the upstream client *)

\* C6: when the upstream call of any of the nine methods fails, the call ends
\* in the Error of that method and the cache is exactly as before; an entry is
\* created or changed only by a step that received a successful response.
C6_FailureLeavesCache ==
  /\ last.op = "respondFail" =>
       /\ last.ret = Err(ErrorMessage(last.a))
       /\ cache = last.pre
       /\ req[last.r].pc = "idle"
  /\ \A k \in DOMAIN cache :
       (k \notin DOMAIN last.pre \/ cache[k] # last.pre[k]) =>
         /\ last.op = "respondOk"
         /\ k = CacheKey(last.a)
         /\ cache[k].data = last.ret

\* A call failed while an expired entry of its key was present: the entry is
\* neither removed nor refreshed.
C6_Witness ==
  /\ last.op = "respondFail"
  /\ CacheKey(last.a) \in DOMAIN cache
  /\ now - cache[CacheKey(last.a)].timestamp >= 60000

\* The stored result of an earlier price request for the same coin list and
\* currencies, still the current entry (no clear, no later store) and younger
\* than ttl.
SamePriceRequest(a, b) ==
  /\ a.op = "getSimplePrices" /\ b.op = "getSimplePrices"
  /\ a.coinIds = b.coinIds
  /\ a.vs_currencies = b.vs_currencies

\* C7: a price request that starts after an earlier request for the same coin
\* list and currency has stored its result, less than ttl ago, issues no
\* upstream call and returns the mapping the first one returned.
C7_SecondRequestFromCache ==
  (last.op = "call" /\ ~ShortCircuits(last.a)) =>
    \A k \in DOMAIN lastSet :
      (SamePriceRequest(last.a, lastSet[k].a) /\ now - lastSet[k].at < 60000) =>
        /\ last.ret = lastSet[k].v
        /\ req[last.r].pc = "idle"

\* The second request was served from the cache after one upstream call.
C7_Witness ==
  /\ last.op = "call"
  /\ last.a.op = "getSimplePrices"
  /\ ~ShortCircuits(last.a)
  /\ upstreamCalls = 1
  /\ \E k \in DOMAIN lastSet :
       /\ SamePriceRequest(last.a, lastSet[k].a)
       /\ now - lastSet[k].at < 60000
       /\ now - lastSet[k].at > 0
       /\ last.ret = lastSet[k].v

SameCoinSet(a, b) ==
  /\ a.op = "getSimplePrices" /\ b.op = "getSimplePrices"
  /\ Range(a.coinIds) = Range(b.coinIds)
  /\ Len(a.coinIds) = Len(b.coinIds)
  /\ a.vs_currencies = b.vs_currencies

\* C8: the price cache key does not depend on the order of the coin ids: a
\* price request for a set of coins whose prices were stored less than ttl ago,
\* by a request that gave the ids in any order, is served from that entry
\* without an upstream call.
C8_KeyIgnoresOrder ==
  (last.op = "call" /\ ~ShortCircuits(last.a)) =>
    \A k \in DOMAIN lastSet :
      (SameCoinSet(last.a, lastSet[k].a) /\ now - lastSet[k].at < 60000) =>
        /\ last.ret = lastSet[k].v
        /\ req[last.r].pc = "idle"

\* C9: an upstream error for a whole price batch is not raised to the caller
\* of the price lookup: the lookup ends in a mapping (what was cached, possibly
\* the empty one) and not in a thrown error.
C9_PriceFailureNotRaised ==
  (last.op = "respondFail" /\ last.a.op = "getSimplePrices") =>
    /\ last.ret.t = "obj"
    /\ \A c \in DOMAIN last.ret.v : c \in Range(last.a.coinIds)

\* empty or missing coinIds; a missing query or one shorter than 2 once trimmed
Degenerate(a) ==
  \/ a.op \in {"getSimplePrices", "getCoinsByIds"} /\ (~a.coinIdsGiven \/ a.coinIds = <<>>)
  \/ a.op = "searchCoins" /\ (~a.queryGiven \/ Len(trim(a.query)) < 2)

\* C17: a call with degenerate input returns {} (getSimplePrices) or []
\* (getCoinsByIds, searchCoins) at once: no upstream call is issued and the
\* cache is not written.
C17_DegenerateShortCircuits ==
  (last.op = "call" /\ Degenerate(last.a)) =>
    /\ last.ret = IF last.a.op = "getSimplePrices" THEN Obj(<<>>) ELSE Arr(<<>>)
    /\ upstreamCalls = last.calls
    /\ cache = last.pre
    /\ req[last.r].pc = "idle"

\* A query of three characters, one of them not a blank, was answered at once
\* while the cache held entries of earlier calls.
C17_Witness ==
  /\ last.op = "call"
  /\ last.a.op = "searchCoins"
  /\ Len(last.a.query) = 3
  /\ last.ret = Arr(<<>>)
  /\ upstreamCalls = 2
  /\ Cardinality(DOMAIN cache) = 2

\* C18: getCoin fails with a not-found error when the provider reports that the
\* coin does not exist and with an upstream error on a network failure, a
\* timeout or a 5xx answer: for one coin, the outcome of the not-found failure
\* (the error thrown and the answer of the coin route) differs from the outcome
\* of each of the other failures.
C18_FailuresDistinguishable ==
  \A id \in CoinIdParams, cause \in FailureCauses \ {"notFound"} :
    (rt.outcomes[<<id, "notFound">>] # NoOutcome /\ rt.outcomes[<<id, cause>>] # NoOutcome) =>
      /\ rt.outcomes[<<id, "notFound">>].thrown # rt.outcomes[<<id, cause>>].thrown
      /\ rt.outcomes[<<id, "notFound">>].res # rt.outcomes[<<id, cause>>].res

----------------------------------------------------------------------------
(* Claims about the write/verify routes *)

\* C19: when getCoin fails for the submitted coin, add-holding and
\* add-to-watchlist answer 400 'Invalid coin ID or coin not found' and persist
\* nothing: no holding is created, the watchlist is neither created nor changed.
C19_UnverifiedCoinRejected ==
  [][(rt.pc = "verify" /\ last'.op = "respondFail") =>
       /\ rt'.pc = "done"
       /\ rt'.res = [status |-> 400, message |-> "Invalid coin ID or coin not found"]
       /\ rt'.dbOps = 0
       /\ db' = db]_vars

\* The coin of a watchlist request could not be verified, after an earlier
\* request had been turned down the same way; there is still no watchlist.
C19_Witness ==
  /\ rt.pc = "done"
  /\ rt.route = "addWatchlist"
  /\ rt.body.coinId = "BTC"
  /\ rt.res.status = 400
  /\ last.op = "respondFail"
  /\ upstreamCalls = 2
  /\ db = EmptyDb

\* input that the validators of the route turn down
Malformed(route, b) ==
  \/ route = "addHolding" /\ (b.coinId = "" \/ b.amount <= 0 \/ b.buyPrice < 0)
  \/ route = "addWatchlist" /\ b.coinId = ""
  \/ route = "getHolding" /\ ~b.id.hex24

\* C20: a request with malformed input is answered with the validation failure
\* before anything else happens: no getCoin or getSimplePrices call (not even
\* one served from the cache), the cache unchanged, no holding read or written.
C20_ValidationFirst ==
  [][(rt' # rt /\ Malformed(rt'.route, rt'.body)) =>
       /\ rt'.pc = "done"
       /\ rt'.res = [status |-> 400, message |-> "Validation failed"]
       /\ rt'.calls = 0
       /\ rt'.dbOps = 0
       /\ svars' = svars
       /\ db' = db]_vars

\* A negative buy price was turned down while the cache held the data of an
\* earlier add and a holding was stored.
C20_Witness ==
  /\ rt.route = "addHolding"
  /\ rt.body.buyPrice < 0
  /\ rt.body.amount >= 1
  /\ rt.body.coinId = "btc"
  /\ rt.res.status = 400
  /\ Len(db.holdings) = 1
  /\ CacheKey(CoinArgs("btc")) \in DOMAIN cache

----------------------------------------------------------------------------
(* Claims about the valuation *)

\* C10: whichever path valued the holding, at whatever current price, the
\* values are investment = amount * buyPrice, currentValue = amount * price,
\* profitLoss = currentValue - investment and, when investment > 0,
\* profitLossPercentage = (profitLoss / investment) * 100.
C10_ValuationFormulas ==
  val.path # "none" =>
    LET investment == val.doc.amount * val.doc.buyPrice
        currentValue == val.doc.amount * val.price IN
    /\ val.out.investment = investment
    /\ val.out.currentValue = currentValue
    /\ val.out.profitLoss = currentValue - investment
    /\ investment > 0 =>
         val.out.profitLossPercentage = Num((currentValue - investment) * 100, investment)

\* C11: a holding whose investment is 0 gets profitLossPercentage 0 from
\* every valuation path, calculateProfitLoss included: no division by zero, no
\* NaN and no infinite value.
C11_ZeroInvestmentPercentageZero ==
  (val.path # "none" /\ val.doc.amount * val.doc.buyPrice = 0) =>
    /\ IsFinite(val.out.profitLossPercentage)
    /\ val.out.profitLossPercentage = Zero
    /\ val.doc.profitLossPercentage = Zero

\* C12: a holding whose quote is absent or zero is valued at price 0 by every
\* path: currentPrice 0, currentValue 0, profitLoss = -investment and, when
\* investment > 0, profitLossPercentage -100.
C12_MissingQuoteValuedAtZero ==
  (val.path # "none" /\ val.price = 0) =>
    LET investment == val.doc.amount * val.doc.buyPrice IN
    /\ val.out.currentPrice = 0
    /\ val.out.currentValue = 0
    /\ val.out.profitLoss = -investment
    /\ investment > 0 => val.out.profitLossPercentage = Num(-100, 1)

\* C13: the totals of a portfolio are the sums of the per-holding investment,
\* currentValue and profitLoss, so totalProfitLoss = totalCurrentValue -
\* totalInvestment, and totalProfitLossPercentage is (totalProfitLoss /
\* totalInvestment) * 100 when totalInvestment > 0 and 0 otherwise; all totals
\* are 0 for the empty portfolio.  Here: the totals of the stored summary.
C13_TotalsAreSums ==
  (rt.pc = "done" /\ rt.route = "summary") =>
    LET d == rt.res.data
        xs == [i \in DOMAIN d.holdings |-> DocumentValues(d.holdings[i])] IN
    /\ d.totalInvestment = SumOf(xs, "investment")
    /\ d.totalCurrentValue = SumOf(xs, "currentValue")
    /\ d.totalProfitLoss = SumOf(xs, "profitLoss")
    /\ d.totalProfitLoss = d.totalCurrentValue - d.totalInvestment
    /\ d.totalProfitLossPercentage =
         IF d.totalInvestment > 0
         THEN Num(d.totalProfitLoss * 100, d.totalInvestment)
         ELSE Zero
    /\ Len(d.holdings) = 0 =>
         /\ d.totalInvestment = 0 /\ d.totalCurrentValue = 0 /\ d.totalProfitLoss = 0
         /\ d.totalProfitLossPercentage = Zero

----------------------------------------------------------------------------
(* Claims about the analytics *)

Analysed == rt.pc = "done" /\ rt.res.status = 200

Pct(x) == x.profitLossPercentage

\* list holds n different elements of the input, all the others being on the
\* far side of its last element
Selects(list, input, n, better(_, _)) ==
  /\ Len(list) = n
  /\ \A i \in DOMAIN list : \E j \in DOMAIN input : input[j] = list[i]
  /\ \A i, j \in DOMAIN list : i # j => list[i].id # list[j].id
  /\ \A i, j \in DOMAIN list : i < j => ~better(list[j], list[i])
  /\ \A j \in DOMAIN input :
       (\A i \in DOMAIN list : list[i].id # input[j].id) =>
         \A i \in DOMAIN list : ~better(input[j], list[i])

Higher(x, y) == Less(Pct(y), Pct(x))
Lower(x, y) == Less(Pct(x), Pct(y))

\* C14: the top performers are the first min(5, length) holdings in descending
\* order of profitLossPercentage, the worst performers the first min(5, length)
\* in ascending order.
C14_TopAndWorstPerformers ==
  Analysed =>
    LET n == Min(5, Len(rt.holdingsWithCalc)) IN
    /\ Selects(rt.res.data.topPerformers, rt.holdingsWithCalc, n, Higher)
    /\ Selects(rt.res.data.worstPerformers, rt.holdingsWithCalc, n, Lower)

\* Six holdings of three different performances were ranked.
C14_Witness ==
  /\ Analysed
  /\ Len(rt.holdingsWithCalc) = 6
  /\ Cardinality({Pct(rt.holdingsWithCalc[i]) : i \in DOMAIN rt.holdingsWithCalc}) >= 3
  /\ Pct(rt.res.data.worstPerformers[1]) # Pct(rt.res.data.worstPerformers[5])
  /\ Pct(rt.res.data.topPerformers[1]) # Pct(rt.res.data.topPerformers[5])

\* the place of a row in the input
PlaceOf(x) == CHOOSE j \in DOMAIN rt.holdingsWithCalc : rt.holdingsWithCalc[j].id = x.id

KeepsInputOrder(list) ==
  \A i, j \in DOMAIN list :
    (i < j /\ Pct(list[i]) = Pct(list[j])) => PlaceOf(list[i]) < PlaceOf(list[j])

\* C15: ranking is stable: holdings of equal profitLossPercentage keep their
\* input order in the top performers and in the worst performers.
C15_RankingStable ==
  Analysed =>
    /\ KeepsInputOrder(rt.res.data.topPerformers)
    /\ KeepsInputOrder(rt.res.data.worstPerformers)

RECURSIVE SumPercentages(_)
SumPercentages(rows) ==
  IF Len(rows) = 0 THEN Zero ELSE Plus(rows[1].percentage, SumPercentages(Tail(rows)))

\* C16: in both allocation breakdowns the percentages of the rows sum to 100
\* when the total is > 0 and to 0 when it is 0, and no row carries NaN.
C16_AllocationSums ==
  Analysed =>
    LET d == rt.res.data IN
    /\ \A i \in DOMAIN d.allocationByValue : IsFinite(d.allocationByValue[i].percentage)
    /\ \A i \in DOMAIN d.allocationByInvestment :
         IsFinite(d.allocationByInvestment[i].percentage)
    /\ SumPercentages(d.allocationByValue) =
         IF d.totalCurrentValue > 0 THEN Num(100, 1) ELSE Zero
    /\ SumPercentages(d.allocationByInvestment) =
         IF d.totalInvestment > 0 THEN Num(100, 1) ELSE Zero

\* Three holdings share the value unevenly while one without a quote is left
\* out of the breakdown by value.
C16_Witness ==
  /\ Analysed
  /\ Len(rt.res.data.allocationByValue) = 3
  /\ Len(rt.res.data.allocationByInvestment) = 4
  /\ rt.res.data.allocationByValue[1].percentage # rt.res.data.allocationByValue[3].percentage
  /\ \E i \in 1..4 : rt.res.data.allocationByInvestment[i].percentage = Zero

----------------------------------------------------------------------------
(* Claims about the administrative endpoints *)

----------------------------------------------------------------------------
(* Claims about overlapping requests *)

\* C22: there is no locking. A call that finds its key missing or expired
\* issues its own upstream call at once, whether or not another request is
\* already waiting for the same key, and leaves the other requests alone; a
\* request that completes returns the response of its own upstream call and
\* stores it, so the cache holds the value of the most recent store.
C22_NoLockingLastWriteWins ==
  [][\A r \in Requests :
       /\ (last'.op = "call" /\ last'.r = r /\ ~ShortCircuits(last'.a)
             /\ ~Truthy(getCachedData(cache, CacheKey(last'.a), now))) =>
            /\ req'[r] = [pc |-> "waiting", a |-> last'.a, n |-> upstreamCalls + 1]
            /\ upstreamCalls' = upstreamCalls + 1
            /\ \A q \in Requests \ {r} : req'[q] = req[q]
            /\ cache' = cache
       /\ (last'.op = "respondOk" /\ last'.r = r) =>
            /\ req[r].pc = "waiting"
            /\ last'.ret \in {Result(req[r].a, ResponseData(req[r].a, v)) :
                                v \in ResponseChoices(req[r])}
            /\ cache'[CacheKey(req[r].a)] = [data |-> last'.ret, timestamp |-> now]
            /\ \A q \in Requests \ {r} : req'[q] = req[q]]_vars

\* Two requests missed the same key and both went upstream: the second call
\* was answered and stored first, then the first call was answered and its
\* response replaced the still fresh entry.
C22_Witness ==
  /\ last.op = "respondOk"
  /\ last.r = 1
  /\ last.calls = 2
  /\ last.a.op = "getSimplePrices"
  /\ CacheKey(last.a) \in DOMAIN last.pre
  /\ last.pre[CacheKey(last.a)].data = Result(last.a, ResponseData(last.a, 2))
  /\ Truthy(getCachedData(last.pre, CacheKey(last.a), now))
  /\ last.ret = Result(last.a, ResponseData(last.a, 1))
  /\ cache[CacheKey(last.a)].data = last.ret

----------------------------------------------------------------------------
(* Claims about termination *)

\* C23: every upstream call is made with a bounded timeout, so a request that
\* is waiting for the provider always comes to an end, with a response or with
\* an error raised to the caller, even if the provider never answers.
C23_UpstreamCallsEnd ==
  \A r \in Requests : (req[r].pc = "waiting") ~> (req[r].pc = "idle")

\* A request that the provider left unanswered was ended by its timer, ten
\* seconds after it was sent at the earliest, with the method's error.
C23_Witness ==
  /\ last.op = "respondFail"
  /\ rt[last.r] = TickStep + timeout
  /\ now >= rt[last.r]
  /\ req[last.r].pc = "idle"
  /\ last.ret = Err(ErrorMessage(last.a))

----------------------------------------------------------------------------
(* Claims about the batch save of GET /api/portfolio *)

\* C24: the batch save starts one write per holding, all at once.  While a
\* write is pending the batch is still running, whatever happened to the other
\* writes, so the pending write can complete (the guard of SaveOk holds), and
\* every write that has succeeded stays in the database with the values
\* calculated for its holding.
C24_SavesIndependent ==
  (rt.pc \in {"saving", "done"} /\ Len(rt.saves) > 0) =>
    /\ DOMAIN rt.saves = DOMAIN rt.holdings
    /\ \A i \in DOMAIN rt.saves :
         /\ rt.saves[i] = "pending" => (rt.pc = "saving" /\ i \in DOMAIN db)
         /\ rt.saves[i] = "ok" =>
              \E j \in DOMAIN db :
                /\ db[j].id = rt.holdings[i].id
                /\ DocumentValues(db[j]) = DocumentValues(rt.holdings[i])
                /\ db[j].lastUpdated = rt.holdings[i].lastUpdated

\* Of three writes the second failed and the other two are in the database.
C24_Witness ==
  /\ rt.pc = "done"
  /\ rt.saves = <<"ok", "failed", "ok">>
  /\ now > 0
  /\ \A i \in {1, 3} :
       \E j \in DOMAIN db : db[j].id = rt.holdings[i].id /\ db[j].lastUpdated = now
  /\ \E j \in DOMAIN db : db[j].id = rt.holdings[2].id /\ db[j].lastUpdated = 0

\* C25: a failed save is ignored by the portfolio read: the request is still
\* answered with the snapshot.
C25_SaveFailureIgnored ==
  (rt.pc = "done" /\ \E i \in DOMAIN rt.saves : rt.saves[i] = "failed") =>
    rt.res = PortfolioSnapshot(rt.holdings, rt.currency)

----------------------------------------------------------------------------
(* Claims about what a cache entry answers for *)

\* the coins whose price in these currencies a stored entry still holds fresh
FreshCoins(vs_currencies) ==
  UNION { DOMAIN lastSet[k].v.v :
            k \in { x \in DOMAIN lastSet :
                      /\ lastSet[x].a.op = "getSimplePrices"
                      /\ lastSet[x].a.vs_currencies = vs_currencies
                      /\ now - lastSet[x].at < cacheTimeout } }

\* C26: a price request that misses only in part asks the provider for the
\* missing coins only: no coin whose price is still fresh in the cache is in
\* the ids sent upstream.
C26_PartialMissFetchesMissingOnly ==
  (last.op = "call" /\ last.a.op = "getSimplePrices" /\ last.ret = pending) =>
    \A c \in Range(UpstreamIds(last.a)) : c \notin FreshCoins(last.a.vs_currencies)

\* C27: a cache hit of getCoinMarkets returns data that was fetched with the
\* same request parameters (currency, page, per_page, order, sparkline,
\* price_change_percentage).
C27_MarketsHitSameParameters ==
  (last.op = "call" /\ last.a.op = "getCoinMarkets" /\ last.ret # pending) =>
    /\ CacheKey(last.a) \in DOMAIN lastSet
    /\ lastSet[CacheKey(last.a)].a = last.a

----------------------------------------------------------------------------
(* Claims about the watchlist *)

\* C28: a watchlist never holds the same coin id twice, whatever sequence of
\* add, batch add, remove, reorder and clear produced it, and a reorder that
\* succeeded left a permutation of the list it found.
C28_WatchlistHasNoDuplicates ==
  /\ \A i, j \in DOMAIN db.coinIds : i # j => db.coinIds[i] # db.coinIds[j]
  /\ (rt.route = "reorder" /\ rt.res.status = 200) =>
       /\ Len(db.coinIds) = Len(rt.before)
       /\ Range(db.coinIds) = Range(rt.before)

----------------------------------------------------------------------------
(* Claims about the isolation of users *)

\* C29: a request authenticated as one user reads, updates, deletes and values
\* only that user's holdings: the holdings of every other user are left as they
\* were, every holding in the answer belongs to the user, and the id of another
\* user's holding is answered 404 'Holding not found'.  A request that is not
\* authenticated is answered 401 and changes nothing.
C29_HoldingsIsolatedPerUser ==
  rt.route # "none" =>
    /\ SelectSeq(db, LAMBDA h : h.userId # rt.user)
         = SelectSeq(rt.before, LAMBDA h : h.userId # rt.user)
    /\ rt.res.status = 200 =>
         \A i \in DOMAIN rt.res.data : rt.res.data[i].userId = rt.user
    /\ (rt.user # "" /\ rt.route \in {"get", "put", "delete"}
          /\ \E i \in DOMAIN rt.before :
               rt.before[i].id = rt.id.n /\ rt.before[i].userId # rt.user) =>
         rt.res \in {[status |-> 404, message |-> "Holding not found"],
                     [status |-> 400, message |-> "Validation failed"]}
    /\ rt.user = "" => (rt.res.status = 401 /\ db = rt.before)

\* User A asked to delete the holding of user B, was answered 404, and the
\* holding of B is still stored.
C29_Witness ==
  /\ rt.route = "delete"
  /\ rt.user = "A"
  /\ rt.id = [hex24 |-> TRUE, n |-> 3]
  /\ rt.res = [status |-> 404, message |-> "Holding not found"]
  /\ \E i \in DOMAIN db : db[i].id = 3 /\ db[i].userId = "B"

----------------------------------------------------------------------------
(* Claims about clearing the cache *)

\* C30: a fetch that was in flight when clearCache ran does not put its result
\* back: when the step that follows a clear is the completion of a request
\* (which was therefore started before the clear), the cache does not hold
\* that request's key afterwards.
C30_InFlightFetchNotStoredAfterClear ==
  [][(last.op = "clearCache" /\ last'.op = "respondOk") =>
       CacheKey(last'.a) \notin DOMAIN cache']_vars

====
